---- MODULE Spec2Model ----
(***************************************************************************)
(* A model of tcldis.py: the decompiler of Tcl bytecode.                   *)
(*                                                                         *)
(* The state is the state of one run of decompile(bc): the bytecode, the   *)
(* position of the generator _decompile, its block list, the snapshots it  *)
(* has yielded.  One action per stage of _decompile.                       *)
(*                                                                         *)
(* Representation.  A Python str is a sequence of one-character strings.   *)
(* An instance of a class is a record whose field k is the class name.     *)
(* None is the empty sequence where the other values are sequences         *)
(* (targetloc), the record NoInst where they are records (inst), and the   *)
(* string "None" where they are True/False (on).  An operand of an         *)
(* instruction is wrapped by its Python type (IntOp, StrOp, AuxOp).        *)
(* Positions inside a block are those of Python (0-based) in the change    *)
(* records and 1-based everywhere else.                                    *)
(***************************************************************************)
EXTENDS Integers, Sequences, FiniteSets, TLC

VARIABLES bc, pc, bblocks, yielded, out, steps

vars == <<bc, pc, bblocks, yielded, out, steps>>

----------------------------------------------------------------------------
(* Bounds of the model *)

\* Longest program of the exhaustive family of inputs
MaxLen == 3
\* Most pushes in front of the opcode in the one-opcode family of inputs
MaxPush == 3
\* Most snapshots a run may yield before the model stops it
MaxYield == 40

----------------------------------------------------------------------------
(* Generic helpers *)

Range(s) == {s[i] : i \in DOMAIN s}

Last(s) == s[Len(s)]

Front(s) == SubSeq(s, 1, Len(s) - 1)

RECURSIVE SumSeq(_)
SumSeq(s) == IF s = <<>> THEN 0 ELSE Head(s) + SumSeq(Tail(s))

RECURSIVE Flatten(_)
Flatten(ss) == IF ss = <<>> THEN <<>> ELSE Head(ss) \o Flatten(Tail(ss))

Min(S) == CHOOSE x \in S : \A y \in S : x <= y

\* sorted(list(S)) of a set of integers
RECURSIVE sorted(_)
sorted(S) == IF S = {} THEN <<>> ELSE <<Min(S)>> \o sorted(S \ {Min(S)})

\* s[lo:hi] = new, with Python's 0-based half-open range (0 <= lo <= hi <= len)
Splice(s, lo, hi, new) == SubSeq(s, 1, lo) \o new \o SubSeq(s, hi + 1, Len(s))

\* lst.count(x)
Count(s, x) == Cardinality({i \in DOMAIN s : s[i] = x})

----------------------------------------------------------------------------
(* Operands, instructions *)

IntOp(n) == [int |-> n]
StrOp(s) == [str |-> s]
AuxOp(tag, data) == [aux |-> tag, data |-> data]

IsIntOp(op) == DOMAIN op = {"int"}
IsStrOp(op) == DOMAIN op = {"str"}
IsAuxOp(op) == DOMAIN op = {"aux", "data"}

JUMP_INSTRUCTIONS ==
    {"jump1", "jump4", "jumpTrue1", "jumpTrue4", "jumpFalse1", "jumpFalse4"}

\* The widths of the operands of an opcode, from the instruction table
OperandWidths(name) ==
    CASE name \in {"push1", "jump1", "jumpTrue1", "jumpFalse1", "invokeStk1",
                   "concat1", "loadScalar1", "loadArray1", "storeScalar1",
                   "storeArray1", "incrStkImm", "incrScalarStkImm"} -> <<1>>
      [] name \in {"push4", "jump4", "jumpTrue4", "jumpFalse4", "invokeStk4",
                   "list", "beginCatch4", "reverse", "variable",
                   "foreach_start4", "foreach_step4"} -> <<4>>
      [] name = "incrScalar1Imm" -> <<1, 1>>
      [] name \in {"returnImm", "startCommand"} -> <<4, 4>>
      [] OTHER -> <<>>

\* INSTRUCTIONS[opcode]['num_bytes']
NumBytes(name) == 1 + SumSeq(OperandWidths(name))

NoInst == [k |-> "None"]

\* Inst.__new__: the instruction decoded at offset loc
Inst(p, loc) ==
    [k |-> "Inst", loc |-> loc, name |-> p.name, ops |-> p.ops,
     targetloc |-> IF p.name \in JUMP_INSTRUCTIONS
                   THEN <<loc + p.ops[1].int>> ELSE <<>>]

RECURSIVE getinstsFrom(_, _, _)
getinstsFrom(code, i, loc) ==
    IF i > Len(code) THEN <<>>
    ELSE <<Inst(code[i], loc)>>
         \o getinstsFrom(code, i + 1, loc + NumBytes(code[i].name))

\* getinsts(bc)
getinsts(b) == getinstsFrom(b.bytecode, 1, 0)

----------------------------------------------------------------------------
(* Classes *)

ValueClasses ==
    {"BCLiteral", "BCVarRef", "BCArrayRef", "BCConcat", "BCExpr",
     "BCProcCall", "BCSet", "BCVariable", "BCReturn", "BCDone", "BCIf",
     "BCCatch", "BCForeach"}

ProcCallClasses ==
    {"BCProcCall", "BCSet", "BCVariable", "BCReturn", "BCDone", "BCIf",
     "BCCatch", "BCForeach"}

IsInst(x) == x.k = "Inst"
IsBCValue(x) == x.k \in ValueClasses
IsBCProcCall(x) == x.k \in ProcCallClasses
IsBCLiteral(x) == x.k = "BCLiteral"
IsBCJump(x) == x.k = "BCJump"

\* BBlock(insts, loc)
BBlock(insts, loc) == [loc |-> loc, insts |-> insts]

\* BBlock.replaceinst((lo, hi), replaceinsts), 0 <= lo <= hi <= len
replaceinst(bblock, lo, hi, new) ==
    BBlock(Splice(bblock.insts, lo, hi, new), bblock.loc)

appendinsts(bblock, new) == BBlock(bblock.insts \o new, bblock.loc)

\* BBlock.popinst() of a non-empty block
popinst(bblock) == BBlock(Front(bblock.insts), bblock.loc)

----------------------------------------------------------------------------
(* Formatter *)

BS == "\\"
FF == "\f"
CR == "\r"
LF == "\n"
TAB == "\t"
VT == "<VT>"
DQ == "\""

\* The characters of '$[]{}""\f\r\n\t\v '
MetaChars == {"$", "[", "]", "{", "}", DQ, FF, CR, LF, TAB, VT, " "}

\* str.replace(c, rep) for a one-character c
RECURSIVE Replace(_, _, _)
Replace(s, c, rep) ==
    IF s = <<>> THEN <<>>
    ELSE (IF Head(s) = c THEN rep ELSE <<Head(s)>>) \o Replace(Tail(s), c, rep)

\* sep.join(ss)
RECURSIVE StrJoin(_, _)
StrJoin(sep, ss) ==
    IF ss = <<>> THEN <<>>
    ELSE IF Len(ss) = 1 THEN ss[1]
    ELSE ss[1] \o sep \o StrJoin(sep, Tail(ss))

\* s.endswith(t)
EndsWith(s, t) ==
    Len(t) <= Len(s) /\ SubSeq(s, Len(s) - Len(t) + 1, Len(s)) = t

\* The loop of BCLiteral.fmt over the braces: matching_brackets
RECURSIVE MatchingBrackets(_, _)
MatchingBrackets(val, level) ==
    IF val = <<>> THEN TRUE
    ELSE LET l == IF Head(val) = "{" THEN level + 1
                  ELSE IF Head(val) = "}" THEN level - 1 ELSE level
         IN IF l < 0 THEN FALSE ELSE MatchingBrackets(Tail(val), l)

\* The chain of replace calls of BCLiteral.fmt, in its order
EscapeLiteral(val) ==
    LET r1 == Replace(val, BS, <<BS, BS>>)
        r2 == Replace(r1, FF, <<BS, "f">>)
        r3 == Replace(r2, CR, <<BS, "r">>)
        r4 == Replace(r3, LF, <<BS, "n">>)
        r5 == Replace(r4, TAB, <<BS, "t">>)
        r6 == Replace(r5, VT, <<BS, "v">>)
        r7 == Replace(r6, "}", <<BS, "}">>)
        r8 == Replace(r7, "{", <<BS, "{">>)
        r9 == Replace(Replace(r8, DQ, <<BS, DQ>>), DQ, <<BS, DQ>>)
        r10 == Replace(r9, "[", <<BS, "[">>)
        r11 == Replace(r10, "]", <<BS, "]">>)
    IN Replace(r11, "$", <<BS, "$">>)

\* BCLiteral.fmt
BCLiteralFmt(val) ==
    IF val = <<>> THEN <<"{", "}">>
    ELSE IF \A i \in DOMAIN val : val[i] \notin MetaChars THEN val
    ELSE IF (\E i \in DOMAIN val : val[i] \in {FF, CR, VT})
            \/ ~MatchingBrackets(val, 0)
         THEN <<DQ>> \o EscapeLiteral(val) \o <<DQ>>
         ELSE <<"{">> \o val \o <<"}">>

\* The result of a fmt call: the text, or err when the call raises
FmtOk(s) == [err |-> FALSE, s |-> s]
FmtErr == [err |-> TRUE, s |-> <<>>]

\* str(inst) of a raw instruction, Inst.__repr__: one token
InstRepr(inst) ==
    <<"<" \o ToString(inst.loc) \o ": " \o inst.name \o " "
      \o ToString(inst.ops) \o ">">>

\* BCJump.__repr__: one token
BCJumpRepr(jump) ==
    <<"BCJump"
      \o (IF jump.on # "None"
          THEN "(" \o jump.on \o "==" \o ToString(jump.value) \o ")" ELSE "")
      \o "->" \o ToString(jump.inst.targetloc)>>

\* BCExpr._exprmap[name][0]
ExprOp(name) ==
    CASE name = "gt" -> <<">">>
      [] name = "lt" -> <<"<">>
      [] name = "ge" -> <<">", "=">>
      [] name = "le" -> <<"<", "=">>
      [] name = "eq" -> <<"=", "=">>
      [] name = "neq" -> <<"!", "=">>
      [] name = "add" -> <<"+">>
      [] name = "not" -> <<"!">>

\* '[' + cmd + ']' if self.stackn
Bracketed(node, cmd) ==
    IF node.stackn # 0 THEN <<"[">> \o cmd \o <<"]">> ELSE cmd

ArraySetName ==
    <<":", ":", "t", "c", "l", ":", ":", "a", "r", "r", "a", "y", ":", ":",
      "s", "e", "t">>

\* BCValue.destack of a node with stackn = 1
destack(node) == [node EXCEPT !.stackn = node.stackn - 1]

\* The loop body of BCIf.fmt over one branch: the branch without its
\* terminal empty literal, or with its terminal call destacked
IfBranch(bblock) ==
    IF bblock.insts = <<>> THEN [err |-> TRUE, bblock |-> bblock]
    ELSE LET inst == Last(bblock.insts)
         IN IF IsBCLiteral(inst)
            THEN [err |-> inst.lit # <<>>, bblock |-> popinst(bblock)]
            ELSE IF IsBCProcCall(inst)
            THEN IF inst.stackn # 1 THEN [err |-> TRUE, bblock |-> bblock]
                 ELSE [err |-> FALSE,
                       bblock |-> appendinsts(popinst(bblock),
                                              <<destack(inst)>>)]
            ELSE [err |-> TRUE, bblock |-> bblock]

\* The results of a list of fmt calls: whether one raises, and the texts
FmtAll(rs) ==
    [err |-> \E i \in DOMAIN rs : rs[i].err,
     ss |-> [i \in DOMAIN rs |-> rs[i].s]]

\* '\n\t' + text.replace('\n', '\n\t') + '\n'
Indented(text) == <<LF, TAB>> \o Replace(text, LF, <<LF, TAB>>) \o <<LF>>

\* The condition of a BCIf as BCIf.fmt formats it: cond.expr() of a BCExpr,
\* cond.fmt() of anything else
IfCond(node) ==
    LET cond == node.jumps[1].value[1]
    IN IF cond.k = "BCExpr" THEN [cond EXCEPT !.k = "BCExpr.expr"] ELSE cond

\* The elements a fmt method formats in turn, in the order of its text
FmtKids(node) ==
    CASE node.k \in {"BCLiteral", "BCJump"} -> <<>>
      [] node.k = "BCExpr" -> <<[node EXCEPT !.k = "BCExpr.expr"]>>
      [] node.k = "BCReturn" ->
            IF IsBCLiteral(node.value[1]) /\ node.value[1].lit = <<>>
            THEN <<>> ELSE <<node.value[1]>>
      [] node.k = "BCDone" ->
            IF IsBCProcCall(node.value[1]) THEN <<destack(node.value[1])>>
            ELSE <<node.value[1]>>
      [] node.k = "BCIf" ->
            <<IfCond(node)>> \o IfBranch(node.value[1]).bblock.insts
            \o IfBranch(node.value[2]).bblock.insts
      [] node.k = "BCCatch" ->
            SubSeq(node.value[1].insts, 2, Len(node.value[1].insts) - 3)
            \o <<destack(node.value[1].insts[Len(node.value[1].insts) - 2])>>
      [] node.k = "BCForeach" ->
            <<node.value[1].insts[1].value[2]>>
            \o popinst(node.value[3]).insts
      [] OTHER -> node.value

\* BCExpr.expr, given the texts of the operands
BCExprExpr(node, ss) ==
    IF Len(node.value) = 1 THEN ExprOp(node.inst.name) \o ss[1]
    ELSE ss[1] \o <<" ">> \o ExprOp(node.inst.name) \o <<" ">> \o ss[2]

\* BCIf.fmt, given the texts of the condition and of the elements of the
\* two branches
BCIfFmt(node, ss) ==
    LET n1 == Len(IfBranch(node.value[1]).bblock.insts)
        on == node.jumps[1].on
        isexpr == node.jumps[1].value[1].k = "BCExpr"
        conditionstr ==
            IF on # "True" THEN ss[1]
            ELSE IF isexpr THEN <<"!", "(">> \o ss[1] \o <<")">>
            ELSE <<"!">> \o ss[1]
    IN IF IfBranch(node.value[1]).err \/ IfBranch(node.value[2]).err
       THEN FmtErr
       \* the % operator is applied to the template with the body in it
       ELSE IF \E i \in 2..(1 + n1) : "%" \in Range(ss[i]) THEN FmtErr
       ELSE FmtOk(Bracketed(node,
                <<"i", "f", " ", "{">> \o conditionstr \o <<"}", " ", "{">>
                \o Indented(StrJoin(<<LF>>, SubSeq(ss, 2, 1 + n1)))
                \o <<"}">>
                \o (IF Len(ss) > 1 + n1
                    THEN <<" ", "e", "l", "s", "e", " ", "{">>
                         \o Indented(StrJoin(<<LF>>,
                                             SubSeq(ss, 2 + n1, Len(ss))))
                         \o <<"}">>
                    ELSE <<>>)))

\* BCCatch.fmt, given the texts of the elements of the body
BCCatchFmt(node, ss) ==
    IF node.value[1].insts[Len(node.value[1].insts) - 2].stackn # 1
    THEN FmtErr
    ELSE FmtOk(Bracketed(node,
            <<"c", "a", "t", "c", "h", " ", "{">> \o StrJoin(<<LF>>, ss)
            \o <<"}", " ">> \o node.value[3].insts[3].ops[1].str))

\* BCForeach.fmt, given the texts of the list and of the elements of the
\* body
BCForeachFmt(node, ss) ==
    FmtOk(Bracketed(node,
        <<"f", "o", "r", "e", "a", "c", "h", " ", "{">>
        \o StrJoin(<<" ">>, node.value[1].insts[2].ops[1].data[1])
        \o <<"}", " ">> \o ss[1] \o <<" ", "{">>
        \o Indented(StrJoin(<<LF>>, Tail(ss))) \o <<"}">>))

\* The fmt method of the class of node, given the results of the fmt calls
\* it makes
FmtNode(node, r) ==
    IF r.err THEN FmtErr
    ELSE CASE node.k = "BCLiteral" -> FmtOk(BCLiteralFmt(node.lit))
           [] node.k = "BCVarRef" -> FmtOk(<<"$">> \o r.ss[1])
           [] node.k = "BCArrayRef" ->
                FmtOk(<<"$">> \o r.ss[1] \o <<"(">> \o r.ss[2] \o <<")">>)
           [] node.k = "BCArrayElt" ->
                FmtOk(r.ss[1] \o <<"(">> \o r.ss[2] \o <<")">>)
           [] node.k = "BCConcat" -> FmtOk(<<DQ>> \o Flatten(r.ss) \o <<DQ>>)
           [] node.k = "BCProcCall" ->
                \* args is a tuple: args[0:1] = [...] raises TypeError
                IF r.ss[1] = ArraySetName THEN FmtErr
                ELSE FmtOk(Bracketed(node, StrJoin(<<" ">>, r.ss)))
           [] node.k = "BCSet" ->
                FmtOk(Bracketed(node, <<"s", "e", "t", " ">> \o r.ss[1]
                                      \o <<" ">> \o r.ss[2]))
           [] node.k = "BCVariable" ->
                FmtOk(Bracketed(node,
                        <<"v", "a", "r", "i", "a", "b", "l", "e", " ">>
                        \o r.ss[1]))
           [] node.k = "BCExpr.expr" -> FmtOk(BCExprExpr(node, r.ss))
           [] node.k = "BCExpr" ->
                FmtOk(<<"[", "e", "x", "p", "r", " ", "{">> \o r.ss[1]
                      \o <<"}", "]">>)
           [] node.k = "BCReturn" ->
                IF r.ss = <<>> THEN FmtOk(<<"r", "e", "t", "u", "r", "n">>)
                ELSE FmtOk(<<"r", "e", "t", "u", "r", "n", " ">> \o r.ss[1])
           [] node.k = "BCDone" ->
                IF IsBCProcCall(node.value[1])
                THEN IF node.value[1].stackn # 1 THEN FmtErr
                     ELSE FmtOk(r.ss[1])
                ELSE FmtOk(<<"r", "e", "t", "u", "r", "n", " ">> \o r.ss[1])
           [] node.k = "BCIf" -> BCIfFmt(node, r.ss)
           [] node.k = "BCCatch" -> BCCatchFmt(node, r.ss)
           [] node.k = "BCForeach" -> BCForeachFmt(node, r.ss)
           [] node.k = "BCJump" -> FmtOk(BCJumpRepr(node))

\* x.fmt() of an IR node; of a raw instruction, which only a block holds,
\* str(x) as BBlock.fmt_insts takes it
RECURSIVE fmt(_)
fmt(x) ==
    IF IsInst(x) THEN FmtOk(InstRepr(x))
    ELSE FmtNode(x, FmtAll([i \in DOMAIN FmtKids(x) |-> fmt(FmtKids(x)[i])]))

\* BBlock.fmt_insts
fmt_insts(bblock) ==
    FmtAll([i \in DOMAIN bblock.insts |-> fmt(bblock.insts[i])])

\* '\n'.join(texts), when no fmt call raised
JoinLines(r) == IF r.err THEN FmtErr ELSE FmtOk(StrJoin(<<LF>>, r.ss))

\* BBlock.fmt
BBlockFmt(bblock) == JoinLines(fmt_insts(bblock))

----------------------------------------------------------------------------
(* Basic-block partitioner *)

\* An iteration that does not end a block before the target of a jump
CreateStepNoEndBefore(insts, i, st) ==
    LET inst == insts[i]
        starts1 == IF st.newstart THEN st.starts \cup {inst.loc} ELSE st.starts
    IN IF inst.targetloc # <<>>
       THEN [starts |-> starts1 \cup {inst.targetloc[1]},
             ends |-> st.ends \cup {inst.loc},
             newstart |-> TRUE,
             err |-> FALSE]
       ELSE IF inst.name \in {"beginCatch4", "endCatch"}
       THEN [starts |-> starts1 \cup {inst.loc},
             ends |-> st.ends \cup (IF inst.loc # 0 THEN {insts[i - 1].loc}
                                    ELSE {}),
             newstart |-> FALSE,
             err |-> FALSE]
       ELSE [st EXCEPT !.starts = starts1, !.newstart = FALSE]

\* One iteration of the first loop of _bblock_create over insts[i];
\* st = [starts, ends, newstart, err]
CreateStep(insts, i, st) ==
    LET inst == insts[i]
        starts1 == IF st.newstart THEN st.starts \cup {inst.loc} ELSE st.starts
    IN IF inst.targetloc # <<>>
       THEN LET t == inst.targetloc[1]
                \* while True: if insts[instbeforeidx+1].loc == t: break
                found == {j \in 2..Len(insts) : insts[j].loc = t}
            IN IF t # 0 /\ found = {}
               THEN [st EXCEPT !.err = TRUE]
               ELSE [starts |-> starts1 \cup {t},
                     ends |-> st.ends \cup {inst.loc}
                              \cup (IF t # 0 THEN {insts[Min(found) - 1].loc}
                                    ELSE {}),
                     newstart |-> TRUE,
                     err |-> FALSE]
       ELSE IF inst.name \in {"beginCatch4", "endCatch"}
       THEN [starts |-> starts1 \cup {inst.loc},
             ends |-> st.ends \cup (IF inst.loc # 0 THEN {insts[i - 1].loc}
                                    ELSE {}),
             newstart |-> FALSE,
             err |-> FALSE]
       ELSE [st EXCEPT !.starts = starts1, !.newstart = FALSE]

RECURSIVE CreateScan(_, _, _)
CreateScan(insts, i, st) ==
    IF i > Len(insts) \/ st.err THEN st
    ELSE CreateScan(insts, i + 1, CreateStep(insts, i, st))

\* The second loop of _bblock_create: the blocks cut from the instructions
\* left, one per (start, end) of the zip
RECURSIVE CreateBlocks(_, _, _)
CreateBlocks(rest, starts, ends) ==
    IF starts = <<>> \/ ends = <<>> THEN [err |-> FALSE, bblocks |-> <<>>]
    ELSE LET upto == {j \in DOMAIN rest : rest[j].loc >= Head(ends)}
         IN IF rest = <<>> \/ rest[1].loc # Head(starts) \/ upto = {}
               \/ rest[Min(upto)].loc # Head(ends)
            THEN [err |-> TRUE, bblocks |-> <<>>]
            ELSE LET n == Min(upto)
                     r == CreateBlocks(SubSeq(rest, n + 1, Len(rest)),
                                       Tail(starts), Tail(ends))
                 IN [err |-> r.err,
                     bblocks |-> <<BBlock(SubSeq(rest, 1, n), rest[1].loc)>>
                                 \o r.bblocks]

\* _bblock_create(insts)
_bblock_create(insts) ==
    IF insts = <<>> THEN [err |-> TRUE, bblocks |-> <<>>]
    ELSE LET st == CreateScan(insts, 1, [starts |-> {}, ends |-> {},
                                         newstart |-> TRUE, err |-> FALSE])
             ends == st.ends \cup {Last(insts).loc}
         IN IF st.err \/ Cardinality(st.starts) # Cardinality(ends)
            THEN [err |-> TRUE, bblocks |-> <<>>]
            ELSE CreateBlocks(insts, sorted(st.starts), sorted(ends))

----------------------------------------------------------------------------
(* Change records: (lfrom, lto), each an int, a pair or None *)

IntC(n) == [int |-> n]
PairC(a, b) == [pair |-> <<a, b>>]
NoneC == [none |-> TRUE]
Change(lfrom, lto) == [lfrom |-> lfrom, lto |-> lto]

----------------------------------------------------------------------------
(* Pre-pass *)

\* bc.literal(n): the literal, in a one-element sequence, or <<>> when the
\* index is out of range
literal(b, n) ==
    IF n + 1 \in DOMAIN b.literals THEN <<b.literals[n + 1]>> ELSE <<>>

\* The positions (1-based) of the raw variable instructions of a block
VariableIs(bblock) ==
    {i \in DOMAIN bblock.insts :
        IsInst(bblock.insts[i]) /\ bblock.insts[i].name = "variable"}

\* The two assertions of _bblock_hack on the element after position i
HackAsserts(b, bblock, i) ==
    /\ i + 1 \in DOMAIN bblock.insts
    /\ IsInst(bblock.insts[i + 1])
    /\ bblock.insts[i + 1].name \in {"push1", "push4"}
    /\ literal(b, bblock.insts[i + 1].ops[1].int) = <<(<<>>)>>

\* for i in reversed(variableis): bblock = bblock.replaceinst(i+1, [])
RECURSIVE HackDelete(_, _)
HackDelete(insts, is) ==
    IF is = {} THEN insts
    ELSE LET i == CHOOSE x \in is : \A y \in is : y <= x
         IN HackDelete(Splice(insts, i, i + 1, <<>>), is \ {i})

RECURSIVE HackChanges(_)
HackChanges(is) ==
    IF is = {} THEN <<>>
    ELSE LET i == CHOOSE x \in is : \A y \in is : y <= x
         IN <<Change(IntC(i), NoneC)>> \o HackChanges(is \ {i})

\* _bblock_hack(bc, bblock); changed is "the block returned is a new object"
_bblock_hack(b, bblock) ==
    LET is == VariableIs(bblock)
    IN IF \E i \in is : ~HackAsserts(b, bblock, i)
       THEN [err |-> TRUE, bblock |-> bblock, changes |-> <<>>,
             changed |-> FALSE]
       ELSE [err |-> FALSE,
             bblock |-> BBlock(HackDelete(bblock.insts, is), bblock.loc),
             changes |-> HackChanges(is),
             changed |-> is # {}]

----------------------------------------------------------------------------
(* IR nodes *)

\* BCValue.__new__ of a class whose value is a list: stackn = 1
Value(k, inst, value) ==
    [k |-> k, inst |-> inst, value |-> value, stackn |-> 1]

BCLiteral(inst, s) == [k |-> "BCLiteral", inst |-> inst, lit |-> s, stackn |-> 1]

\* lit(s) of _inst_reductions
lit(s) == BCLiteral(NoInst, s)

BCJump(on, inst, value) ==
    [k |-> "BCJump", inst |-> inst, value |-> value, on |-> on,
     targetloc |-> inst.targetloc]

BCArrayElt(value) == [k |-> "BCArrayElt", inst |-> NoInst, value |-> value]

\* str(n) of an integer
RECURSIVE Digits(_)
Digits(n) == IF n < 10 THEN <<ToString(n)>>
             ELSE Digits(n \div 10) \o <<ToString(n % 10)>>

IntStr(n) == IF n < 0 THEN <<"-">> \o Digits(0 - n) ELSE Digits(n)

Chars_incr == <<"i", "n", "c", "r">>
Chars_list == <<"l", "i", "s", "t">>
Chars_llength == <<"l", "l", "e", "n", "g", "t", "h">>

----------------------------------------------------------------------------
(* Reducer *)

\* The keys of inst_reductions
ReductionNames ==
    {"invokeStk1", "invokeStk4", "list", "listLength", "incrStkImm",
     "incrScalar1Imm", "incrScalarStkImm", "variable", "jump1", "jumpFalse1",
     "jumpTrue1", "loadStk", "loadScalarStk", "loadArrayStk", "loadScalar1",
     "loadArray1", "storeStk", "storeScalarStk", "storeArrayStk",
     "storeScalar1", "storeArray1", "gt", "lt", "ge", "le", "eq", "neq",
     "add", "not", "concat1", "pop", "dup", "done", "returnImm",
     "tryCvtToNumeric", "nop", "startCommand"}

\* nargs_fn(inst) of the entry of inst.name
nargs_fn(inst) ==
    CASE inst.name \in {"invokeStk1", "invokeStk4", "list", "concat1"} ->
            inst.ops[1].int
      [] inst.name \in {"incrScalar1Imm", "jump1", "loadScalar1",
                        "tryCvtToNumeric", "nop", "startCommand"} -> 0
      [] inst.name \in {"loadArrayStk", "storeStk", "storeScalarStk",
                        "storeArray1", "gt", "lt", "ge", "le", "eq", "neq",
                        "add", "returnImm"} -> 2
      [] inst.name = "storeArrayStk" -> 3
      [] OTHER -> 1

\* is_simple(arg)
is_simple(arg) == arg.k \in {"BCLiteral", "BCVarRef", "BCArrayRef"}

\* checkargs_fn(arg) of the entry of name; TRUE where the entry has none
checkargs_fn(name, arg) ==
    CASE name = "pop" -> IsBCProcCall(arg)
      [] name = "dup" -> is_simple(arg)
      [] OTHER -> TRUE

\* The loop of getargsfn from position j (1-based) down: the arguments
\* collected, in block order
RECURSIVE getargsScan(_, _, _, _, _)
getargsScan(insts, j, nargs, name, arglist) ==
    IF j = 0 \/ Len(arglist) = nargs THEN arglist
    ELSE LET arg == insts[j]
         IN IF ~IsBCValue(arg) THEN arglist
            ELSE IF arg.stackn < 1
            THEN getargsScan(insts, j - 1, nargs, name, arglist)
            ELSE IF ~checkargs_fn(name, arg) THEN arglist
            ELSE getargsScan(insts, j - 1, nargs, name, <<arg>> \o arglist)

\* A scan that takes the nodes next to the opcode whether or not they occupy
\* a stack slot and satisfy the predicate of the entry
getargsfnAdjacent(inst, bblock, i) ==
    LET n == nargs_fn(inst)
    IN IF /\ i - 1 >= n
          /\ \A j \in (i - n)..(i - 1) : IsBCValue(bblock.insts[j])
       THEN [none |-> FALSE, arglist |-> SubSeq(bblock.insts, i - n, i - 1)]
       ELSE [none |-> TRUE, arglist |-> <<>>]

\* getargsfn(inst, bblock, i) for the opcode at position i (1-based)
getargsfn(inst, bblock, i) ==
    LET arglist == getargsScan(bblock.insts, i - 1, nargs_fn(inst),
                               inst.name, <<>>)
    IN [none |-> Len(arglist) # nargs_fn(inst), arglist |-> arglist]

RedOk(new) == [err |-> FALSE, new |-> new]
RedErr == [err |-> TRUE, new |-> <<>>]

\* lit('incr'), target, and the delta when it is not 1
IncrCall(inst, target, delta) ==
    Value("BCProcCall", inst,
          <<lit(Chars_incr), target>>
          \o (IF delta # 1 THEN <<lit(IntStr(delta))>> ELSE <<>>))

\* assert self.value[0].fmt().endswith(self.inst.ops[0]), on the result r of
\* the fmt call
VariableAssert(inst, r) == ~r.err /\ EndsWith(r.s, inst.ops[1].str)

\* BCVariable(inst, kv)
BCVariableNew(inst, kv) ==
    IF VariableAssert(inst, fmt(kv[1]))
    THEN RedOk(<<Value("BCVariable", inst, kv)>>) ELSE RedErr

\* BCReturn(inst, kv): the assertions on the options, the code, the level
BCReturnNew(inst, kv) ==
    IF /\ IsBCLiteral(kv[2]) /\ kv[2].lit = <<>>
       /\ inst.ops[1].int = 0
       /\ inst.ops[2].int = 1
    THEN RedOk(<<Value("BCReturn", inst, kv)>>)
    ELSE RedErr

\* redfn(inst, kv) of the entry of inst.name: the elements spliced in
redfn(inst, kv) ==
    LET name == inst.name
    IN CASE name \in {"invokeStk1", "invokeStk4"} ->
              IF Len(kv) >= 1 THEN RedOk(<<Value("BCProcCall", inst, kv)>>)
              ELSE RedErr
         [] name = "list" ->
              RedOk(<<Value("BCProcCall", inst, <<lit(Chars_list)>> \o kv)>>)
         [] name = "listLength" ->
              RedOk(<<Value("BCProcCall", inst,
                            <<lit(Chars_llength), kv[1]>>)>>)
         [] name \in {"incrStkImm", "incrScalarStkImm"} ->
              RedOk(<<IncrCall(inst, kv[1], inst.ops[1].int)>>)
         [] name = "incrScalar1Imm" ->
              RedOk(<<IncrCall(inst, lit(inst.ops[1].str), inst.ops[2].int)>>)
         [] name = "variable" -> BCVariableNew(inst, kv)
         [] name = "jump1" -> RedOk(<<BCJump("None", inst, kv)>>)
         [] name = "jumpFalse1" -> RedOk(<<BCJump("False", inst, kv)>>)
         [] name = "jumpTrue1" -> RedOk(<<BCJump("True", inst, kv)>>)
         [] name \in {"loadStk", "loadScalarStk"} ->
              RedOk(<<Value("BCVarRef", inst, kv)>>)
         [] name = "loadArrayStk" -> RedOk(<<Value("BCArrayRef", inst, kv)>>)
         [] name = "loadScalar1" ->
              RedOk(<<Value("BCVarRef", inst, <<lit(inst.ops[1].str)>>)>>)
         [] name = "loadArray1" ->
              RedOk(<<Value("BCArrayRef", inst,
                            <<lit(inst.ops[1].str), kv[1]>>)>>)
         [] name \in {"storeStk", "storeScalarStk"} ->
              RedOk(<<Value("BCSet", inst, kv)>>)
         [] name = "storeArrayStk" ->
              RedOk(<<Value("BCSet", inst,
                            <<BCArrayElt(<<kv[1], kv[2]>>), kv[3]>>)>>)
         [] name = "storeScalar1" ->
              RedOk(<<Value("BCSet", inst, <<lit(inst.ops[1].str), kv[1]>>)>>)
         [] name = "storeArray1" ->
              RedOk(<<Value("BCSet", inst,
                            <<BCArrayElt(<<lit(inst.ops[1].str), kv[1]>>),
                              kv[2]>>)>>)
         [] name \in {"gt", "lt", "ge", "le", "eq", "neq", "add", "not"} ->
              RedOk(<<Value("BCExpr", inst, kv)>>)
         [] name = "concat1" ->
              IF Len(kv) > 1 THEN RedOk(<<Value("BCConcat", inst, kv)>>)
              ELSE RedErr
         [] name = "pop" -> RedOk(<<destack(kv[1])>>)
         [] name = "dup" -> RedOk(<<kv[1], kv[1]>>)
         [] name = "done" -> RedOk(<<Value("BCDone", inst, kv)>>)
         [] name = "returnImm" -> BCReturnNew(inst, kv)
         [] name \in {"tryCvtToNumeric", "nop", "startCommand"} ->
              RedOk(<<>>)

\* The first branch of the loop of _bblock_reduce: a push at position i
ReducePush(b, bblock, i) ==
    LET l == literal(b, bblock.insts[i].ops[1].int)
    IN IF l = <<>>
       THEN [err |-> TRUE, bblock |-> bblock, changes |-> <<>>,
             changed |-> FALSE]
       ELSE [err |-> FALSE,
             bblock |-> replaceinst(bblock, i - 1, i,
                                    <<BCLiteral(bblock.insts[i], l[1])>>),
             changes |-> <<Change(IntC(i - 1), IntC(i - 1))>>,
             changed |-> TRUE]

\* bblock.replaceinst(irange, newinsts) with irange = (lo, i) and the
\* result r of redfn, and the change recorded
Spliced(bblock, lo, i, r) ==
    IF r.err
    THEN [err |-> TRUE, bblock |-> bblock, changes |-> <<>>,
          changed |-> FALSE]
    ELSE [err |-> FALSE,
          bblock |-> replaceinst(bblock, lo, i, r.new),
          changes |-> <<Change(PairC(lo, i), PairC(lo, lo + Len(r.new)))>>,
          changed |-> TRUE]

\* A reducer that leaves the opcode in place after its node
ReduceInstKeepsOpcode(bblock, i, arglist) ==
    Spliced(bblock, (i - 1) - Len(arglist), i - 1,
            redfn(bblock.insts[i], arglist))

\* The second branch of the loop of _bblock_reduce: the entry of the opcode
\* at position i (1-based), whose arguments arglist were found;
\* irange = (i - len(arglist), i + 1)
ReduceInst(bblock, i, arglist) ==
    Spliced(bblock, (i - 1) - Len(arglist), i,
            redfn(bblock.insts[i], arglist))

\* The positions of a block at which the loop of _bblock_reduce does not
\* continue
Reducible(bblock) ==
    {i \in DOMAIN bblock.insts :
        LET inst == bblock.insts[i]
        IN /\ IsInst(inst)
           /\ \/ inst.name \in {"push1", "push4"}
              \/ /\ inst.name \in ReductionNames
                 /\ ~getargsfn(inst, bblock, i).none}

\* The iteration of the loop of _bblock_reduce that returns, at position i
ReduceAt(b, bblock, i) ==
    IF bblock.insts[i].name \in {"push1", "push4"}
    THEN ReducePush(b, bblock, i)
    ELSE ReduceInst(bblock, i,
                    getargsfn(bblock.insts[i], bblock, i).arglist)

\* _bblock_reduce(bc, bblock); changed is "the block returned is a new
\* object"
_bblock_reduce(b, bblock) ==
    IF Reducible(bblock) = {}
    THEN [err |-> FALSE, bblock |-> bblock, changes |-> <<>>,
          changed |-> FALSE]
    ELSE ReduceAt(b, bblock, Min(Reducible(bblock)))

----------------------------------------------------------------------------
(* Helpers of the coalescer and of the structural recognizer *)

\* _get_jump(bblock): the jump in a one-element sequence, or <<>> for None
_get_jump(bblock) ==
    IF Len(bblock.insts) = 0 THEN <<>>
    ELSE IF ~IsBCJump(Last(bblock.insts)) THEN <<>>
    ELSE <<Last(bblock.insts)>>

_is_catch_begin(bblock) ==
    /\ Len(bblock.insts) # 0
    /\ IsInst(bblock.insts[1])
    /\ bblock.insts[1].name = "beginCatch4"

_is_catch_end(bblock) ==
    /\ Len(bblock.insts) # 0
    /\ IsInst(bblock.insts[1])
    /\ bblock.insts[1].name = "endCatch"

\* The raw instructions of a block that have a targetloc, in order
RECURSIVE InstTargets(_)
InstTargets(insts) ==
    IF insts = <<>> THEN <<>>
    ELSE (IF IsInst(Head(insts)) /\ Head(insts).targetloc # <<>>
          THEN Head(insts).targetloc ELSE <<>>)
         \o InstTargets(Tail(insts))

\* _get_targets(bblocks): the list of the targets of the terminating jumps,
\* then of the raw instructions
_get_targets(bbs) ==
    Flatten([i \in DOMAIN bbs |->
               IF _get_jump(bbs[i]) = <<>> THEN <<>>
               ELSE _get_jump(bbs[i])[1].targetloc])
    \o Flatten([i \in DOMAIN bbs |-> InstTargets(bbs[i].insts)])

\* any([isinstance(inst, Inst) for inst in insts])
AnyInst(insts) == \E i \in DOMAIN insts : IsInst(insts[i])

\* a is b, of two offsets: the integers of the model are in the range in
\* which the interpreter keeps one object for each integer
IsSame(a, b) == a = b

----------------------------------------------------------------------------
(* Coalescer *)

\* What a pass over the block list does: it raises, or it returns whether it
\* changed the list, which it leaves as bblocks
Unchanged(bbs) ==
    [err |-> FALSE, changed |-> FALSE, bblocks |-> bbs, changes |-> <<>>]
Raised(bbs) ==
    [err |-> TRUE, changed |-> FALSE, bblocks |-> bbs, changes |-> <<>>]
Changed(bbs) ==
    [err |-> FALSE, changed |-> TRUE, bblocks |-> bbs, changes |-> <<>>]

\* A first loop that deletes an empty block whatever jumps to it
JoinEmptyTargeted(bbs) ==
    {i \in DOMAIN bbs : Len(bbs[i].insts) = 0}

\* The first loop of _bblock_join: the positions of the blocks it deletes
JoinEmpty(bbs) ==
    {i \in DOMAIN bbs :
        /\ Len(bbs[i].insts) = 0
        /\ bbs[i].loc \notin Range(_get_targets(bbs))}

\* A second loop that joins a block to one that ends with a BCJump
JoinPairAfterJump(bbs) ==
    {i \in DOMAIN bbs :
        /\ i + 1 \in DOMAIN bbs
        /\ ~(/\ Len(bbs[i].insts) > 0
             /\ IsInst(Last(bbs[i].insts))
             /\ Last(bbs[i].insts).targetloc # <<>>)
        /\ bbs[i + 1].loc \notin Range(_get_targets(bbs))
        /\ ~_is_catch_begin(bbs[i + 1])
        /\ ~_is_catch_end(bbs[i + 1])}

\* The second loop of _bblock_join: the positions i of the pairs
\* (bblocks[i], bblocks[i+1]) it joins
JoinPair(bbs) ==
    {i \in DOMAIN bbs :
        /\ i + 1 \in DOMAIN bbs
        /\ _get_jump(bbs[i]) = <<>>
        /\ ~(/\ Len(bbs[i].insts) > 0
             /\ IsInst(Last(bbs[i].insts))
             /\ Last(bbs[i].insts).targetloc # <<>>)
        /\ bbs[i + 1].loc \notin Range(_get_targets(bbs))
        /\ ~_is_catch_begin(bbs[i + 1])
        /\ ~_is_catch_end(bbs[i + 1])}

\* bblocks[i:i+1] = [] at position i (1-based)
JoinEmptyAt(bbs, i) == Changed(Splice(bbs, i - 1, i, <<>>))

\* bblocks[i] = bblock1.appendinsts(list(bblock2.insts));
\* bblocks[i+1:i+2] = []
JoinPairAt(bbs, i) ==
    Changed(Splice(bbs, i - 1, i + 1,
                   <<appendinsts(bbs[i], bbs[i + 1].insts)>>))

\* _bblock_join(bblocks): what it returns, and the list as it leaves it
_bblock_join(bbs) ==
    IF JoinEmpty(bbs) # {} THEN JoinEmptyAt(bbs, Min(JoinEmpty(bbs)))
    ELSE IF JoinPair(bbs) # {} THEN JoinPairAt(bbs, Min(JoinPair(bbs)))
    ELSE Unchanged(bbs)

----------------------------------------------------------------------------
(* Structural recognizer *)

BCIf(jumps, value) ==
    [k |-> "BCIf", jumps |-> jumps, value |-> value, stackn |-> 1]

\* The conditions of the first loop of _bblock_flow on the four blocks from
\* position i (1-based)
IfMatch(bbs, i) ==
    /\ i + 3 <= Len(bbs)
    /\ LET jump0 == _get_jump(bbs[i])
           jump1 == _get_jump(bbs[i + 1])
           jump2 == _get_jump(bbs[i + 2])
           targets == _get_targets(bbs)
       IN /\ jump0 # <<>> /\ jump0[1].on # "None"
          /\ jump1 # <<>> /\ jump1[1].on = "None"
          /\ jump2 = <<>>
          /\ jump0[1].targetloc = <<bbs[i + 2].loc>>
          /\ jump1[1].targetloc = <<bbs[i + 3].loc>>
          /\ ~AnyInst(bbs[i + 1].insts \o bbs[i + 2].insts)
          /\ Count(targets, bbs[i + 1].loc) = 0
          /\ Count(targets, bbs[i + 2].loc) <= 1

\* The transform of the first loop on the blocks from position i
IfTransform(bbs, i) ==
    LET jumps == <<Last(bbs[i].insts), Last(bbs[i + 1].insts)>>
        node == BCIf(jumps, <<popinst(bbs[i + 1]), bbs[i + 2]>>)
    IN Splice(bbs, i - 1, i + 2, <<appendinsts(popinst(bbs[i]), <<node>>)>>)

\* The assertions of BCCatch.__init__
BCCatchAsserts(begin, middle, end) ==
    LET n == Len(begin.insts)
    IN /\ n >= 4
       /\ Len(middle.insts) = 2
       /\ Len(end.insts) = 4
       /\ IsBCProcCall(begin.insts[n - 2])
       /\ IsBCLiteral(begin.insts[n - 1])
       /\ IsBCJump(begin.insts[n])
       /\ IsInst(middle.insts[1]) /\ middle.insts[1].name = "pushResult"
       /\ IsInst(middle.insts[2]) /\ middle.insts[2].name = "pushReturnCode"
       /\ end.insts[1].name = "endCatch"
       /\ end.insts[2].name = "reverse"
       /\ Len(end.insts[2].ops) > 0 /\ end.insts[2].ops[1] = IntOp(2)
       /\ end.insts[3].name = "storeScalar1"
       /\ end.insts[4].name = "pop"

\* The transform of the second loop of _bblock_flow on the blocks from
\* position i, whose first starts with beginCatch4 and third with endCatch
CatchTransform(bbs, i) ==
    LET begin == bbs[i]
        middle == bbs[i + 1]
        rest == Tail(bbs[i + 2].insts)
        tail == SubSeq(rest, 1, 3)
        endcatch == BBlock(<<bbs[i + 2].insts[1]>> \o tail,
                           bbs[i + 2].insts[1].loc)
        end == BBlock(SubSeq(rest, 4, Len(rest)), bbs[i + 2].loc)
        bccatch == Value("BCCatch", NoInst, <<begin, middle, endcatch>>)
    IN IF ~(/\ Len(rest) > 2
            /\ IsInst(rest[1]) /\ IsInst(rest[2]) /\ IsInst(rest[3])
            /\ rest[1].name = "reverse"
            /\ rest[2].name = "storeScalar1"
            /\ rest[3].name = "pop")
       THEN Raised(bbs)
       ELSE IF ~BCCatchAsserts(begin, middle, endcatch) THEN Raised(bbs)
       ELSE Changed(Splice(bbs, i - 1, i + 2,
                            <<BBlock(<<bccatch>>, begin.loc), end>>))

\* The second loop of _bblock_flow from position i on
RECURSIVE FlowForeach(_, _)

RECURSIVE FlowCatch(_, _)
FlowCatch(bbs, i) ==
    IF i + 2 > Len(bbs) THEN FlowForeach(bbs, 1)
    ELSE IF ~_is_catch_begin(bbs[i]) \/ ~_is_catch_end(bbs[i + 2])
    THEN FlowCatch(bbs, i + 1)
    ELSE IF _is_catch_end(bbs[i + 1]) \/ _is_catch_begin(bbs[i + 1])
    THEN Raised(bbs)
    ELSE IF AnyInst(Tail(bbs[i].insts)) THEN FlowCatch(bbs, i + 1)
    ELSE CatchTransform(bbs, i)

\* The assertions of BCValue.__new__ and BCForeach.__init__
BCForeachAsserts(begin, step, code, lit0) ==
    /\ (IsBCValue(lit0) => lit0.stackn = 1)
    /\ Len(begin.insts) = 2
    /\ Len(step.insts) = 2
    /\ Len(code.insts) > 1
    /\ begin.insts[1].k = "BCSet"
    /\ IsInst(begin.insts[2])
    /\ IsInst(step.insts[1])
    /\ IsInst(step.insts[2])
    /\ IsBCJump(Last(code.insts))
    /\ IsBCLiteral(lit0)
    /\ begin.insts[2].name = "foreach_start4"
    /\ step.insts[1].name = "foreach_step4"
    /\ step.insts[2].name = "jumpFalse1"
    /\ Len(step.insts[1].ops) > 0
    /\ begin.insts[2].ops[1] = step.insts[1].ops[1]
    /\ Len(begin.insts[2].ops[1].data) = 1

\* The value of i after "for i in range(numvarlists)", 1-based
ForeachIndex(i, numvarlists) == IF numvarlists = 0 THEN i ELSE numvarlists

\* The transform of the third loop of _bblock_flow, entered for the blocks
\* from position i.  A last element of bblocks[i] that is not a
\* foreach_start4, or a number of variable lists that is not 1, ends in one
\* of the errors of lines 881-890 or in an assertion of BCForeach.
ForeachTransform(bbs, i) ==
    IF bbs[i].insts = <<>> THEN Raised(bbs)
    ELSE LET foreach_start == Last(bbs[i].insts)
             bbs1 == [bbs EXCEPT ![i] = popinst(@)]
         IN IF ~(/\ IsInst(foreach_start)
                 /\ foreach_start.name = "foreach_start4"
                 /\ Len(foreach_start.ops) > 0
                 /\ IsAuxOp(foreach_start.ops[1])
                 /\ Len(foreach_start.ops[1].data) = 1)
            THEN Raised(bbs)
            ELSE LET j == ForeachIndex(i, Len(foreach_start.ops[1].data))
                 IN IF bbs1[j].insts = <<>> THEN Raised(bbs)
                    ELSE LET varlist == Last(bbs1[j].insts)
                             bbs2 == [bbs1 EXCEPT ![j] = popinst(@)]
                         IN IF j + 3 > Len(bbs2) \/ bbs2[j + 3].insts = <<>>
                            THEN Raised(bbs)
                            ELSE LET
                                begin == BBlock(<<varlist, foreach_start>>,
                                                foreach_start.loc)
                                end == bbs2[j + 3].insts[1]
                                bbs3 == [bbs2 EXCEPT ![j + 3] =
                                            BBlock(Tail(@.insts), @.loc)]
                                node == Value("BCForeach", NoInst,
                                              <<begin, bbs3[j + 1],
                                                bbs3[j + 2], end>>)
                                bbs4 == [bbs3 EXCEPT ![j] =
                                            appendinsts(@, <<node>>)]
                              IN IF ~BCForeachAsserts(begin, bbs3[j + 1],
                                                      bbs3[j + 2], end)
                                 THEN Raised(bbs)
                                 ELSE Changed(Splice(bbs4, j, j + 2, <<>>))

\* The conditions of the third loop of _bblock_flow on the four blocks from
\* position i, none of which is empty where the loop reads an element
ForeachMatch(bbs, i) ==
    LET jump0 == _get_jump(bbs[i])
        jump1 == Last(bbs[i + 1].insts)
        jump2 == _get_jump(bbs[i + 2])
        targets == _get_targets(bbs)
    IN /\ jump0 = <<>>
       /\ IsInst(jump1) /\ jump1.name = "jumpFalse1"
       /\ jump2 # <<>> /\ jump2[1].on = "None"
       /\ IsSame(jump1.targetloc[1], bbs[i + 3].loc)
       /\ IsSame(jump2[1].targetloc[1], bbs[i + 1].loc)
       /\ ~AnyInst(bbs[i + 2].insts)
       /\ IsBCLiteral(bbs[i + 3].insts[1])
       /\ Count(targets, bbs[i + 1].loc) <= 1
       /\ Count(targets, bbs[i + 2].loc) = 0
       /\ Count(targets, bbs[i + 3].loc) <= 1

\* The conditions of the third loop up to the first element of
\* bblocks[i+3], which the loop reads next
ForeachReadsEnd(bbs, i) ==
    LET jump0 == _get_jump(bbs[i])
        jump1 == Last(bbs[i + 1].insts)
        jump2 == _get_jump(bbs[i + 2])
    IN /\ jump0 = <<>>
       /\ IsInst(jump1) /\ jump1.name = "jumpFalse1"
       /\ jump2 # <<>> /\ jump2[1].on = "None"
       /\ IsSame(jump1.targetloc[1], bbs[i + 3].loc)
       /\ IsSame(jump2[1].targetloc[1], bbs[i + 1].loc)
       /\ ~AnyInst(bbs[i + 2].insts)

\* The third loop of _bblock_flow from position i on
FlowForeach(bbs, i) ==
    IF i + 3 > Len(bbs) THEN Unchanged(bbs)
    ELSE IF bbs[i + 1].insts = <<>> THEN Raised(bbs)
    ELSE IF ~ForeachReadsEnd(bbs, i) THEN FlowForeach(bbs, i + 1)
    ELSE IF bbs[i + 3].insts = <<>> THEN Raised(bbs)
    ELSE IF ~ForeachMatch(bbs, i) THEN FlowForeach(bbs, i + 1)
    ELSE ForeachTransform(bbs, i)

\* _bblock_flow(bblocks): whether it raises, what it returns, and the list
\* as it leaves it
_bblock_flow(bbs) ==
    IF \E i \in DOMAIN bbs : IfMatch(bbs, i)
    THEN Changed(IfTransform(bbs, Min({i \in DOMAIN bbs : IfMatch(bbs, i)})))
    ELSE FlowCatch(bbs, 1)

----------------------------------------------------------------------------
(* Input programs *)

\* The literal table of every input program: "", "a", "0"
Literals == <<(<<>>), <<"a">>, <<"0">>>>

\* An instruction of a program before assembly; a jump names the position
\* (1-based) of its target, Len + 1 being the offset after the last one
P(name, ops) == [name |-> name, ops |-> ops, tgt |-> 0]
J(name, tgt) == [name |-> name, ops |-> <<>>, tgt |-> tgt]

\* The byte offset of position i of a program
RECURSIVE Offset(_, _)
Offset(code, i) ==
    IF i = 1 THEN 0 ELSE Offset(code, i - 1) + NumBytes(code[i - 1].name)

\* The bytecode of a program: jumps carry the relative offset of their target
Assemble(code) ==
    [bytecode |->
        [i \in DOMAIN code |->
            [name |-> code[i].name,
             ops |-> IF code[i].name \in JUMP_INSTRUCTIONS
                     THEN <<IntOp(Offset(code, code[i].tgt) - Offset(code, i))>>
                     ELSE code[i].ops]],
     literals |-> Literals]

PushEmpty == P("push1", <<IntOp(0)>>)
PushA == P("push1", <<IntOp(1)>>)
Push0 == P("push1", <<IntOp(2)>>)
Invoke1 == P("invokeStk1", <<IntOp(1)>>)
Pop == P("pop", <<>>)
Nop == P("nop", <<>>)
Done == P("done", <<>>)
Reverse(n) == P("reverse", <<IntOp(n)>>)
StoreA == P("storeScalar1", <<StrOp(<<"a">>)>>)
VarA == P("variable", <<StrOp(<<"a">>)>>)
Aux(data) == <<AuxOp("ForeachInfo", data)>>

\* The opcodes of the exhaustive family, for programs of n instructions
Core(n) ==
    {PushEmpty, PushA, Nop, Pop, Invoke1, VarA, Reverse(2)}
    \cup {J("jump1", t) : t \in 1..(n + 1)}

\* Every program of at most MaxLen instructions over Core
Exhaustive == UNION {[1..n -> Core(n)] : n \in 0..MaxLen}

\* One instruction of every entry of the reduction table, and some opcodes
\* outside it
Opcodes ==
    {P(n, <<>>) :
        n \in {"listLength", "loadStk", "loadScalarStk", "loadArrayStk",
               "storeStk", "storeScalarStk", "storeArrayStk", "gt", "lt",
               "ge", "le", "eq", "neq", "add", "not", "pop", "dup", "done",
               "tryCvtToNumeric", "nop", "endCatch", "pushResult"}}
    \cup {P(n, <<IntOp(m)>>) :
            n \in {"invokeStk1", "invokeStk4", "list", "concat1",
                   "incrStkImm", "incrScalarStkImm", "push4", "beginCatch4"},
            m \in 0..2}
    \cup {P(n, <<StrOp(<<"a">>)>>) :
            n \in {"variable", "loadScalar1", "loadArray1", "storeScalar1",
                   "storeArray1"}}
    \cup {P("incrScalar1Imm", <<StrOp(<<"a">>), IntOp(m)>>) : m \in 1..2}
    \cup {P(n, <<IntOp(m), IntOp(1)>>) :
            n \in {"returnImm", "startCommand"}, m \in 0..1}
    \cup {J(n, 1) : n \in {"jump1", "jumpTrue1", "jumpFalse1", "jump4"}}
    \cup {P("push1", <<IntOp(3)>>)}

\* At most MaxPush pushes, one opcode, and possibly a pop
OneOpcode ==
    {pushes \o <<op>> \o tail :
        pushes \in UNION {[1..n -> {PushEmpty, PushA}] : n \in 0..MaxPush},
        op \in Opcodes,
        tail \in {<<>>, <<Pop>>}}

\* if/else: condition, conditional jump to the else branch, then branch,
\* jump to the end, else branch, end
IfPrograms ==
    {LET else == Len(pre) + 2 + Len(thenB) + 2
         end == else + Len(elseB)
     IN pre \o <<PushA, J(jk, else)>> \o thenB
        \o <<J("jump1", IF straight THEN end ELSE 1)>> \o elseB \o tail :
        pre \in {<<>>, <<PushA, Invoke1, Pop>>},
        jk \in {"jumpFalse1", "jumpTrue1", "jumpFalse4"},
        thenB \in {<<PushEmpty>>, <<PushA>>, <<PushA, Invoke1>>,
                   <<PushA, Invoke1, Pop>>, <<Reverse(2)>>, <<>>},
        elseB \in {<<PushEmpty>>, <<PushA, Invoke1>>, <<Nop>>, <<>>},
        tail \in {<<Done>>, <<Pop, PushA, Invoke1, Done>>},
        straight \in BOOLEAN}

\* catch: beginCatch4, body, return code, jump to endCatch, handler,
\* endCatch and what follows it
CatchPrograms ==
    {LET endc == Len(pre) + 1 + Len(body) + 2 + Len(mid) + 1
     IN pre \o <<P("beginCatch4", <<IntOp(0)>>)>> \o body
        \o <<Push0, J("jump1", endc)>> \o mid \o <<P("endCatch", <<>>)>>
        \o suffix \o tail :
        pre \in {<<>>, <<PushA, Invoke1, Pop>>},
        body \in {<<PushA, Invoke1>>, <<PushA, Invoke1, Pop, PushA, Invoke1>>,
                  <<Reverse(2)>>, <<PushA>>},
        mid \in {<<P("pushResult", <<>>), P("pushReturnCode", <<>>)>>,
                 <<P("pushResult", <<>>)>>,
                 <<PushA, P("pushReturnCode", <<>>)>>},
        suffix \in {<<Reverse(2), StoreA, Pop>>, <<Reverse(2), StoreA>>,
                    <<Reverse(1), StoreA, Pop>>, <<Reverse(2), PushA, Pop>>,
                    <<>>},
        tail \in {<<>>, <<Done>>}}

\* What precedes a foreach: nothing; a block ending in a raw jump; a block
\* ending in a set, a step block and a body block holding a raw instruction
ForeachLead ==
    {<<>>,
     <<PushA, J("jumpFalse4", 3)>>,
     <<PushA, StoreA, P("foreach_step4", Aux(<<(<<"x">>)>>)),
       J("jumpFalse1", 7),
       Reverse(2), J("jump1", 3), PushEmpty>>,
     <<PushA, StoreA, J("jumpFalse4", 4)>>}

\* foreach: list temporary, foreach_start4, step block, body with the
\* back-edge, end
ForeachPrograms ==
    {LET step == Len(lead) + 2 + Len(setpop) + 2
         end == step + 2 + Len(body) + 1
     IN lead \o <<PushA, StoreA>> \o setpop
        \o <<P("foreach_start4", Aux(data)), P("foreach_step4", Aux(data2)),
             J("jumpFalse1", end)>>
        \o body \o <<J("jump1", step)>> \o endB :
        data \in {<<(<<"x">>)>>, <<(<<"x">>), <<"y">>>>, <<>>},
        data2 \in {<<(<<"x">>)>>, <<>>},
        lead \in ForeachLead,
        setpop \in {<<>>, <<Pop>>},
        body \in {<<PushA, Invoke1, Pop>>, <<Reverse(2)>>, <<>>},
        endB \in {<<PushEmpty, Pop>>, <<PushEmpty, Done>>, <<PushEmpty>>,
                  <<Done>>, <<>>}}

\* Arguments, then a command whose result is popped, then an opcode that
\* takes arguments
ScanPrograms ==
    {args \o <<PushA, Invoke1, Pop>> \o <<op>> \o tail :
        args \in {<<PushA>>, <<PushA, PushEmpty>>},
        op \in {Invoke1, P("invokeStk1", <<IntOp(2)>>), StoreA, Done,
                J("jumpTrue1", 1)},
        tail \in {<<>>, <<Pop>>}}

\* A conditional jump into the handler of a catch, then the catch
HandlerPrograms ==
    {<<PushA, J(jk, 8), P("beginCatch4", <<IntOp(0)>>), PushA, Invoke1,
       Push0, J("jump1", 10), P("pushResult", <<>>),
       P("pushReturnCode", <<>>), P("endCatch", <<>>), Reverse(2), StoreA,
       Pop>> \o tail :
        jk \in {"jumpTrue1", "jumpFalse1"},
        tail \in {<<>>, <<Done>>}}

\* The input programs of the model
Programs ==
    {Assemble(code) :
        code \in Exhaustive \cup OneOpcode \cup IfPrograms
                 \cup CatchPrograms \cup ForeachPrograms
                 \cup ScanPrograms \cup HandlerPrograms}

----------------------------------------------------------------------------
(* Driver: _decompile and decompile *)

\* One snapshot yielded by _decompile
Snapshot(bbs, changes) == [bblocks |-> bbs, changes |-> changes]

\* The list yielded after the pre-pass (line 949), given the list before and
\* after it
HackYield(old, hacked) == old

\* A loop that takes a last call that changed nothing for one that did
AfterFlowAgain(change) == "reduce"

\* while change: the loop is left after the call of _bblock_flow returned
\* False
AfterFlow(change) == IF change THEN "reduce" ELSE "done"

\* change = change or _bblock_flow(bblocks) evaluates its right side when
\* the coalescer changed nothing either
AfterJoin(change) == IF change THEN "reduce" ELSE "flow"

\* A loop that calls the recognizer without the coalescer
AfterReduceNoJoin(change) == IF change THEN "reduce" ELSE "flow"

\* change = change or _bblock_join(bblocks) evaluates its right side when the
\* reducer changed nothing
AfterReduce(change) == IF change THEN "reduce" ELSE "join"

\* The call the loop makes after the one of stage, which returned change
After(stage, change) ==
    CASE stage = "reduce" -> AfterReduce(change)
      [] stage = "join" -> AfterJoin(change)
      [] stage = "flow" -> AfterFlow(change)

\* unzip of the results of a pass over every block, and
\* any([b1 is not b2 for b1, b2 in zip(bblocks, newbblocks)])
Unzipped(rs) ==
    [err |-> \E i \in DOMAIN rs : rs[i].err,
     changed |-> \E i \in DOMAIN rs : rs[i].changed,
     bblocks |-> [i \in DOMAIN rs |-> rs[i].bblock],
     changes |-> [i \in DOMAIN rs |-> rs[i].changes]]

\* outstr += bblock.fmt(); outstr += '\n', when no fmt call raised
TerminateLines(r) ==
    IF r.err THEN FmtErr
    ELSE FmtOk(Flatten([i \in DOMAIN r.ss |-> r.ss[i] \o <<LF>>]))

\* _bblocks_fmt(bblocks)
_bblocks_fmt(bbs) ==
    TerminateLines(FmtAll([i \in DOMAIN bbs |-> BBlockFmt(bbs[i])]))

\* Before decompile is called
Init ==
    /\ bc = [bytecode |-> <<>>, literals |-> <<>>]
    /\ pc = "call"
    /\ bblocks = <<>>
    /\ yielded = <<>>
    /\ out = <<>>
    /\ steps = <<>>

\* decompile(bc) is called on one of the input programs
Call ==
    /\ pc = "call"
    /\ bc' \in Programs
    /\ pc' = "create"
    /\ UNCHANGED <<bblocks, yielded, out, steps>>

\* insts = getinsts(bc); bblocks = _bblock_create(insts); the first yield
Create ==
    /\ pc = "create"
    /\ LET r == _bblock_create(getinsts(bc))
       IN IF r.err
          THEN pc' = "error" /\ UNCHANGED <<bblocks, yielded>>
          ELSE /\ pc' = "hack"
               /\ bblocks' = r.bblocks
               /\ yielded' = <<Snapshot(r.bblocks, <<>>)>>
    /\ UNCHANGED <<bc, out, steps>>

\* The pre-pass over every block, and the yield when a block changed
Hack ==
    /\ pc = "hack"
    /\ LET r == Unzipped([i \in DOMAIN bblocks |->
                            _bblock_hack(bc, bblocks[i])])
       IN IF r.err
          THEN pc' = "error" /\ UNCHANGED <<bblocks, yielded>>
          ELSE /\ pc' = "reduce"
               /\ bblocks' = r.bblocks
               /\ yielded' =
                    IF r.changed
                    THEN Append(yielded,
                                Snapshot(HackYield(bblocks, r.bblocks),
                                         r.changes))
                    ELSE yielded
    /\ UNCHANGED <<bc, out, steps>>

\* The end of a call the loop makes, which gave r: the exception goes up,
\* or the list is yielded if it changed and the loop goes on
Step(stage, r) ==
    IF r.err
    THEN pc' = "error" /\ UNCHANGED <<bblocks, yielded>>
    ELSE /\ pc' = After(stage, r.changed)
         /\ bblocks' = r.bblocks
         /\ yielded' = IF r.changed
                       THEN Append(yielded, Snapshot(r.bblocks, r.changes))
                       ELSE yielded

\* The start of an iteration of the loop: the reducer on every block
Reduce ==
    /\ pc = "reduce"
    /\ Len(yielded) < MaxYield
    /\ Step("reduce", Unzipped([i \in DOMAIN bblocks |->
                                  _bblock_reduce(bc, bblocks[i])]))
    /\ UNCHANGED <<bc, out, steps>>

\* The rest of an iteration in which the reducer changed nothing: the
\* coalescer
Join ==
    /\ pc = "join"
    /\ Len(yielded) < MaxYield
    /\ Step("join", _bblock_join(bblocks))
    /\ UNCHANGED <<bc, out, steps>>

\* The rest of an iteration in which the coalescer changed nothing either:
\* the structural recognizer
Flow ==
    /\ pc = "flow"
    /\ Len(yielded) < MaxYield
    /\ Step("flow", _bblock_flow(bblocks))
    /\ UNCHANGED <<bc, out, steps>>

\* The text decompile(bc) returns, or the exception fmt raises
Returned(r) ==
    IF r.err THEN pc' = "error" /\ out' = out
    ELSE pc' = "returned" /\ out' = r.s

\* decompile(bc) after the generator is exhausted: the last snapshot is
\* formatted
Format ==
    /\ pc = "done"
    /\ Returned(_bblocks_fmt(Last(yielded).bblocks))
    /\ UNCHANGED <<bc, bblocks, yielded, steps>>

\* bbschanges of a snapshot as decompile_steps reads it: [[]] * len(bblocks)
\* in place of []
StepChanges(snap) ==
    IF snap.changes = <<>> THEN [j \in DOMAIN snap.bblocks |-> <<>>]
    ELSE snap.changes

\* The assertions of decompile_steps on a snapshot: one list of changes for
\* each block, and an int or a tuple on both sides of every change
StepAsserts(snap) ==
    LET bbschanges == StepChanges(snap)
    IN /\ Len(snap.bblocks) = Len(bbschanges)
       /\ \A j \in DOMAIN bbschanges :
             \A n \in DOMAIN bbschanges[j] :
                LET c == bbschanges[j][n]
                IN /\ DOMAIN c.lfrom \subseteq {"pair", "int"}
                   /\ DOMAIN c.lto \subseteq {"pair", "int"}

\* decompile_steps over the snapshots ys that _decompile(bc) yields: the
\* step of every snapshot is bblock.fmt_insts() of each of its blocks
decompile_steps(ys) ==
    LET lines == [n \in DOMAIN ys |->
                    [j \in DOMAIN ys[n].bblocks |->
                        fmt_insts(ys[n].bblocks[j])]]
    IN [err |-> \E n \in DOMAIN ys :
                   \/ ~StepAsserts(ys[n])
                   \/ \E j \in DOMAIN lines[n] : lines[n][j].err,
        steps |-> [n \in DOMAIN ys |->
                     [j \in DOMAIN lines[n] |-> lines[n][j].ss]]]

\* decompile_steps(bc) is called on a program for which decompile(bc)
\* returned; _decompile(bc) yields the same snapshots again
Steps ==
    /\ pc = "returned"
    /\ LET r == decompile_steps(yielded)
       IN IF r.err THEN pc' = "steps_error" /\ steps' = steps
          ELSE pc' = "stepped" /\ steps' = r.steps
    /\ UNCHANGED <<bc, bblocks, yielded, out>>

Next ==
    Call \/ Create \/ Hack \/ Reduce \/ Join \/ Flow \/ Format \/ Steps

Spec == Init /\ [][Next]_vars

----------------------------------------------------------------------------
(* Properties *)

\* len([i for i in bblock.insts if isinstance(i, Inst)])
RawCount(insts) == Cardinality({j \in DOMAIN insts : IsInst(insts[j])})

TotalRaw(bbs) == SumSeq([i \in DOMAIN bbs |-> RawCount(bbs[i].insts)])

\* The change records of the snapshots yielded, of every block
AllChanges ==
    UNION {UNION {Range(yielded[n].changes[i]) :
                    i \in 1..Len(yielded[n].changes)} : n \in DOMAIN yielded}

\* The calls left in an iteration of the loop of _decompile
StageRank(p) ==
    CASE p = "reduce" -> 3
      [] p = "join" -> 2
      [] p = "flow" -> 1
      [] OTHER -> 0

\* The raw instructions at the top level of the blocks, plus the blocks
Measure(bbs) == TotalRaw(bbs) + Len(bbs)

\* C1: the loop of _decompile terminates.  Every call the loop makes either
\* raises, or makes the natural number Measure(bblocks) smaller, or leaves
\* it as it is and moves on to the next call of the iteration, the last of
\* which leaves the loop: the pair (Measure, StageRank) decreases in the
\* lexicographic order, so only finitely many iterations can change
\* something and the one after them changes nothing.
C1_LoopTerminates ==
    [][(pc \in {"reduce", "join", "flow"}) =>
          \/ pc' = "error"
          \/ Measure(bblocks') < Measure(bblocks)
          \/ (Measure(bblocks') = Measure(bblocks)
              /\ StageRank(pc') < StageRank(pc))
      ]_vars

\* A run that left the loop after the recognizer had built a node
C1_Witness ==
    /\ pc = "done"
    /\ Len(yielded) >= 8
    /\ \E i \in DOMAIN bblocks : \E j \in DOMAIN bblocks[i].insts :
          bblocks[i].insts[j].k \in {"BCIf", "BCCatch", "BCForeach", "BCDone"}

\* C2: a call of the reducer that changes a block leaves strictly fewer raw
\* instructions in that block, hence in the whole list, whichever entry of
\* the table fired.
C2_ReducerDecreasesRaw ==
    [][(pc = "reduce" /\ pc' # "error") =>
          /\ Len(bblocks') = Len(bblocks)
          /\ \A i \in DOMAIN bblocks :
                bblocks'[i] # bblocks[i] =>
                    RawCount(bblocks'[i].insts) < RawCount(bblocks[i].insts)
          /\ (bblocks' # bblocks => TotalRaw(bblocks') < TotalRaw(bblocks))
      ]_vars

\* The reducer has fired dup, which puts two nodes for one opcode
C2_Witness ==
    \E c \in AllChanges :
        /\ "pair" \in DOMAIN c.lto
        /\ c.lto.pair[2] = c.lto.pair[1] + 2

\* The three blocks from position i match the catch pattern in part: the
\* first starts with beginCatch4 and holds no other raw instruction, the
\* third starts with endCatch, and what follows endCatch is not the raw
\* instructions reverse, storeScalar1, pop
PartialCatch(bbs, i) ==
    /\ i + 2 <= Len(bbs)
    /\ _is_catch_begin(bbs[i])
    /\ ~AnyInst(Tail(bbs[i].insts))
    /\ _is_catch_end(bbs[i + 2])
    /\ LET rest == Tail(bbs[i + 2].insts)
       IN ~(/\ Len(rest) > 2
            /\ IsInst(rest[1]) /\ rest[1].name = "reverse"
            /\ IsInst(rest[2]) /\ rest[2].name = "storeScalar1"
            /\ IsInst(rest[3]) /\ rest[3].name = "pop")

\* A list in which the recognizer has nothing to match but partial catches:
\* no if, no foreach, and every window from beginCatch4 to endCatch is a
\* partial catch around a block that starts with neither
OnlyPartialCatch(bbs) ==
    /\ \E i \in DOMAIN bbs : PartialCatch(bbs, i)
    /\ \A i \in DOMAIN bbs : ~IfMatch(bbs, i)
    /\ \A i \in DOMAIN bbs :
          (/\ i + 2 <= Len(bbs)
           /\ _is_catch_begin(bbs[i])
           /\ _is_catch_end(bbs[i + 2]))
          => /\ PartialCatch(bbs, i)
             /\ ~_is_catch_begin(bbs[i + 1])
             /\ ~_is_catch_end(bbs[i + 1])
    /\ FlowForeach(bbs, 1) = Unchanged(bbs)

\* C3: on a window that matches the catch pattern only in part, the
\* recognizer transforms nothing and raises nothing: the call leaves the
\* block list as it is and the loop ends without another snapshot.
C3_PartialCatchLeftAlone ==
    [][(pc = "flow" /\ OnlyPartialCatch(bblocks)) =>
          /\ pc' = "done"
          /\ bblocks' = bblocks
          /\ yielded' = yielded
      ]_vars

\* The first element of a block that is not empty is an IR node, or a raw
\* instruction at the offset of the block
FirstAtLoc(bblock) ==
    \/ bblock.insts = <<>>
    \/ ~IsInst(bblock.insts[1])
    \/ bblock.insts[1].loc = bblock.loc

\* C4: in every block of every snapshot and of the current list, a block
\* that is not empty starts with an IR node or with a raw instruction whose
\* loc is the loc of the block.
C4_FirstElementAtLoc ==
    /\ \A i \in DOMAIN bblocks : FirstAtLoc(bblocks[i])
    /\ \A n \in DOMAIN yielded :
          \A i \in DOMAIN yielded[n].bblocks :
              FirstAtLoc(yielded[n].bblocks[i])

\* No element of the block follows a BCJump
JumpIsLast(bblock) ==
    \A j \in DOMAIN bblock.insts :
        IsBCJump(bblock.insts[j]) => j = Len(bblock.insts)

\* C5: in every block of the current list and of every snapshot, whatever
\* passes have run, a BCJump is the last element of its block.
C5_JumpIsLast ==
    /\ \A i \in DOMAIN bblocks : JumpIsLast(bblocks[i])
    /\ \A n \in DOMAIN yielded :
          \A i \in DOMAIN yielded[n].bblocks :
              JumpIsLast(yielded[n].bblocks[i])

\* The coalescer has joined blocks, and a block of several elements ends
\* with a BCJump
C5_Witness ==
    /\ pc = "done"
    /\ Len(bblocks) < Len(yielded[1].bblocks)
    /\ \E i \in DOMAIN bblocks :
          /\ Len(bblocks[i].insts) > 1
          /\ IsBCJump(Last(bblocks[i].insts))

\* C6: the list decompile formats is a fixpoint: on the blocks of the last
\* snapshot, the pre-pass, the reducer, the coalescer and the recognizer
\* change nothing.
C6_FormattedListIsFixpoint ==
    pc \in {"done", "returned"} =>
        LET bbs == Last(yielded).bblocks
        IN /\ \A i \in DOMAIN bbs : ~_bblock_hack(bc, bbs[i]).changed
           /\ \A i \in DOMAIN bbs : ~_bblock_reduce(bc, bbs[i]).changed
           /\ ~_bblock_join(bbs).changed
           /\ ~_bblock_flow(bbs).changed

\* C7: the first snapshot is the list of the partitioner; after it, a
\* snapshot is added exactly when the pre-pass or an iteration of the loop
\* changed the list, and it shows the list as it is after that change.
C7_SnapshotsInOrder ==
    [][/\ (pc = "create" /\ pc' = "hack") =>
              yielded' = <<Snapshot(bblocks', <<>>)>>
       /\ (pc \in {"hack", "reduce", "join", "flow"} /\ pc' # "error") =>
              IF bblocks' # bblocks
              THEN /\ Len(yielded') = Len(yielded) + 1
                   /\ Front(yielded') = yielded
                   /\ Last(yielded').bblocks = bblocks'
              ELSE yielded' = yielded
      ]_vars

\* The If, Catch and Foreach nodes in an element of a block, or in a block,
\* at any depth
RECURSIVE Structs(_)
Structs(x) ==
    IF "insts" \in DOMAIN x
    THEN SumSeq([j \in DOMAIN x.insts |-> Structs(x.insts[j])])
    ELSE IF "value" \notin DOMAIN x THEN 0
    ELSE (IF x.k \in {"BCIf", "BCCatch", "BCForeach"} THEN 1 ELSE 0)
         + SumSeq([j \in DOMAIN x.value |-> Structs(x.value[j])])
         + (IF "jumps" \in DOMAIN x
            THEN SumSeq([j \in DOMAIN x.jumps |-> Structs(x.jumps[j])])
            ELSE 0)

StructTotal(bbs) == SumSeq([i \in DOMAIN bbs |-> Structs(bbs[i])])

\* C8: the recognizer is called only on a list on which the reducer changes
\* no block and the coalescer changes nothing, and a call that returns has
\* built at most one If, Catch or Foreach.
C8_FlowAfterFixpoint ==
    [][(pc = "flow") =>
          /\ \A i \in DOMAIN bblocks :
                ~_bblock_reduce(bc, bblocks[i]).changed
          /\ ~_bblock_join(bblocks).changed
          /\ (pc' # "error" =>
                StructTotal(bblocks') <= StructTotal(bblocks) + 1)
      ]_vars

\* The recognizer has just built the first node of a run
C8_Witness ==
    /\ pc = "reduce"
    /\ Len(yielded) > 1
    /\ StructTotal(bblocks) = 1
    /\ StructTotal(yielded[Len(yielded) - 1].bblocks) = 0

\* How many jumps of the list, reduced or raw, go to loc
TargetCount(bbs, loc) == Count(_get_targets(bbs), loc)

\* The block ends with a BCJump, conditional or not as cond tells, to loc
EndsWithJump(bblock, cond, loc) ==
    /\ bblock.insts # <<>>
    /\ IsBCJump(Last(bblock.insts))
    /\ (Last(bblock.insts).on # "None") = cond
    /\ Last(bblock.insts).targetloc = <<loc>>

\* The preconditions of an If on the four blocks from position i
IfWindow(bbs, i) ==
    /\ i + 3 <= Len(bbs)
    /\ EndsWithJump(bbs[i], TRUE, bbs[i + 2].loc)
    /\ EndsWithJump(bbs[i + 1], FALSE, bbs[i + 3].loc)
    /\ _get_jump(bbs[i + 2]) = <<>>
    /\ ~AnyInst(bbs[i + 1].insts)
    /\ ~AnyInst(bbs[i + 2].insts)
    /\ TargetCount(bbs, bbs[i + 1].loc) = 0
    /\ TargetCount(bbs, bbs[i + 2].loc) <= 1

\* The preconditions of a Catch on the three blocks from position i
CatchWindow(bbs, i) ==
    /\ i + 2 <= Len(bbs)
    /\ _is_catch_begin(bbs[i])
    /\ ~AnyInst(Tail(bbs[i].insts))
    /\ _is_catch_end(bbs[i + 2])
    /\ LET end == bbs[i + 2].insts
       IN /\ Len(end) >= 4
          /\ \A j \in 2..4 : IsInst(end[j])
          /\ end[2].name = "reverse" /\ end[2].ops = <<IntOp(2)>>
          /\ end[3].name = "storeScalar1"
          /\ end[4].name = "pop"

\* The preconditions of a Foreach on the four blocks from position i
ForeachWindow(bbs, i) ==
    /\ i + 3 <= Len(bbs)
    /\ bbs[i].insts # <<>>
    /\ IsInst(Last(bbs[i].insts))
    /\ Last(bbs[i].insts).name = "foreach_start4"
    /\ Len(bbs[i + 1].insts) >= 2
    /\ LET step == bbs[i + 1].insts[Len(bbs[i + 1].insts) - 1]
           jump == Last(bbs[i + 1].insts)
       IN /\ IsInst(step) /\ step.name = "foreach_step4"
          /\ IsInst(jump) /\ jump.name = "jumpFalse1"
          /\ step.ops = Last(bbs[i].insts).ops
    /\ EndsWithJump(bbs[i + 2], FALSE, bbs[i + 1].loc)
    /\ ~AnyInst(bbs[i + 2].insts)
    /\ bbs[i + 3].insts # <<>>
    /\ IsBCLiteral(bbs[i + 3].insts[1])
    /\ TargetCount(bbs, bbs[i + 1].loc) = 1
    /\ TargetCount(bbs, bbs[i + 2].loc) = 0
    /\ TargetCount(bbs, bbs[i + 3].loc) <= 1

\* The position of the first block in which new differs from old
FirstChanged(old, new) ==
    Min({i \in DOMAIN old : i > Len(new) \/ new[i] # old[i]})

\* C9: a call of the recognizer that changes the list has put an If, a
\* Catch or a Foreach at the end of the first block it changed, and the
\* blocks from that one on were, before the call, a window that satisfies
\* the preconditions of the node.
C9_NodesFromMatchingWindows ==
    [][(pc = "flow" /\ pc' = "reduce") =>
          LET w == FirstChanged(bblocks, bblocks')
              node == Last(bblocks'[w].insts)
          IN /\ node.k \in {"BCIf", "BCCatch", "BCForeach"}
             /\ node.k = "BCIf" => IfWindow(bblocks, w)
             /\ node.k = "BCCatch" => CatchWindow(bblocks, w)
             /\ node.k = "BCForeach" => ForeachWindow(bblocks, w)
      ]_vars

\* Every jump of the sequence goes to the offset of one of its instructions
ValidTargets(insts) ==
    \A i \in DOMAIN insts :
        insts[i].targetloc # <<>> =>
            \E j \in DOMAIN insts : insts[j].loc = insts[i].targetloc[1]

\* The blocks are a partition of insts: none is empty, each is at the offset
\* of its first instruction, they are in ascending order of loc, one after
\* the other they give back insts, a jump ends its block and the target of
\* a jump starts one
PartitionOf(bbs, insts) ==
    /\ \A i \in DOMAIN bbs :
          /\ bbs[i].insts # <<>>
          /\ bbs[i].loc = bbs[i].insts[1].loc
    /\ \A i \in DOMAIN bbs : \A j \in DOMAIN bbs :
          i < j => bbs[i].loc < bbs[j].loc
    /\ Flatten([i \in DOMAIN bbs |-> bbs[i].insts]) = insts
    /\ \A i \in DOMAIN bbs : \A j \in DOMAIN bbs[i].insts :
          bbs[i].insts[j].targetloc # <<>> => j = Len(bbs[i].insts)
    /\ \A k \in DOMAIN insts :
          insts[k].targetloc # <<>> =>
              \E i \in DOMAIN bbs : bbs[i].loc = insts[k].targetloc[1]

\* C10: on a sequence of instructions that is not empty and whose jumps go
\* to offsets of its instructions, the partitioner raises nothing and its
\* blocks, the first snapshot, are a partition of the sequence.
C10_PartitionIsExact ==
    (/\ pc \notin {"call", "create"}
     /\ bc.bytecode # <<>>
     /\ ValidTargets(getinsts(bc)))
    => /\ yielded # <<>>
       /\ PartitionOf(yielded[1].bblocks, getinsts(bc))

\* The partitioner has cut a sequence with a jump forward into three blocks
\* or more
C10_Witness ==
    /\ pc = "hack"
    /\ ValidTargets(getinsts(bc))
    /\ Len(bblocks) >= 3
    /\ \E i \in DOMAIN bblocks :
          /\ Last(bblocks[i].insts).targetloc # <<>>
          /\ Last(bblocks[i].insts).targetloc[1] > bblocks[i].loc

----------------------------------------------------------------------------
(* C11: a procedure body of zero bytes *)

\* C11: on a procedure body of zero bytes nothing raises, the block list is
\* empty in every snapshot, and decompile returns the empty string.
C11_EmptyBodyGivesEmptyText ==
    (pc # "call" /\ bc.bytecode = <<>>) =>
        /\ pc # "error"
        /\ bblocks = <<>>
        /\ \A k \in DOMAIN yielded : yielded[k].bblocks = <<>>
        /\ pc = "returned" => out = <<>>

----------------------------------------------------------------------------
(* The literal formatter applied to bounded strings *)

\* The longest string handed to the literal formatter
MaxStr == 3

\* The strings of at most MaxStr characters over the metacharacters of
\* BCLiteral.fmt, the backslash and one ordinary character
Strings == UNION {[1..n -> MetaChars \cup {BS, "a"}] : n \in 0..MaxStr}

\* A BCLiteral whose value is one of the strings
LitInit ==
    /\ bc \in {[bytecode |-> <<>>, literals |-> <<s>>] : s \in Strings}
    /\ pc = "literal"
    /\ bblocks = <<>>
    /\ yielded = <<>>
    /\ out = <<>>
    /\ steps = <<>>

\* BCLiteral.fmt() of that literal
LiteralFmt ==
    /\ pc = "literal"
    /\ out' = BCLiteralFmt(bc.literals[1])
    /\ pc' = "formatted"
    /\ UNCHANGED <<bc, bblocks, yielded, steps>>

LitSpec == LitInit /\ [][LiteralFmt]_vars

----------------------------------------------------------------------------
(* C12: the word the language's tokenizer reads back *)

BEL == "<BEL>"
WordOk(v) == [ok |-> TRUE, value |-> v]
WordErr == [ok |-> FALSE, value |-> <<>>]
WhiteSpace == {" ", TAB, LF, CR, FF, VT}

\* The character a backslash sequence \c stands for
Unescape(c) ==
    CASE c = "a" -> BEL
      [] c = "f" -> FF
      [] c = "n" -> LF
      [] c = "r" -> CR
      [] c = "t" -> TAB
      [] c = "v" -> VT
      [] c = LF -> " "
      [] OTHER -> c

\* A bare word (quoted = FALSE) or the inside of a double-quoted word from
\* position j: backslash sequences are substituted, a variable or command
\* substitution makes the word something else than a constant
RECURSIVE ParseSubst(_, _, _, _)
ParseSubst(t, j, quoted, acc) ==
    IF j > Len(t) THEN (IF quoted THEN WordErr ELSE WordOk(acc))
    ELSE LET c == t[j]
         IN CASE c = BS ->
                   IF j = Len(t) THEN ParseSubst(t, j + 1, quoted, acc \o <<BS>>)
                   ELSE ParseSubst(t, j + 2, quoted,
                                   acc \o <<Unescape(t[j + 1])>>)
              [] c = "[" -> WordErr
              [] c = "$" ->
                   IF j < Len(t) /\ t[j + 1] \in {"a", "{"} THEN WordErr
                   ELSE ParseSubst(t, j + 1, quoted, acc \o <<c>>)
              [] c = DQ /\ quoted ->
                   IF j = Len(t) THEN WordOk(acc) ELSE WordErr
              [] c \in WhiteSpace /\ ~quoted -> WordErr
              [] OTHER -> ParseSubst(t, j + 1, quoted, acc \o <<c>>)

\* The inside of a brace-quoted word from position j at nesting level: no
\* substitution but backslash-newline, a backslash hides a brace from the
\* count, the closing brace ends the word
RECURSIVE ParseBraced(_, _, _, _)
ParseBraced(t, j, level, acc) ==
    IF j > Len(t) THEN WordErr
    ELSE LET c == t[j]
         IN CASE c = BS ->
                   IF j = Len(t) THEN WordErr
                   ELSE IF t[j + 1] = LF
                   THEN ParseBraced(t, j + 2, level, acc \o <<" ">>)
                   ELSE ParseBraced(t, j + 2, level, acc \o <<BS, t[j + 1]>>)
              [] c = "{" -> ParseBraced(t, j + 1, level + 1, acc \o <<c>>)
              [] c = "}" ->
                   IF level > 1
                   THEN ParseBraced(t, j + 1, level - 1, acc \o <<c>>)
                   ELSE IF j = Len(t) THEN WordOk(acc) ELSE WordErr
              [] OTHER -> ParseBraced(t, j + 1, level, acc \o <<c>>)

\* The text t read as one word: a bare word, a brace-quoted word or a
\* double-quoted word
ParseWord(t) ==
    IF t = <<>> THEN WordErr
    ELSE IF t[1] = "{" THEN ParseBraced(t, 2, 1, <<>>)
    ELSE IF t[1] = DQ THEN ParseSubst(t, 2, TRUE, <<>>)
    ELSE ParseSubst(t, 1, FALSE, <<>>)

\* C12: the text BCLiteral.fmt gives for a string s, read as one word by the
\* tokenizer, is exactly s.
C12_LiteralRoundTrip ==
    pc = "formatted" => ParseWord(out) = WordOk(bc.literals[1])

----------------------------------------------------------------------------
(* C13: what a reduction removes from its block *)

\* The positions of the argument nodes the backward scan collects, from
\* position j down, for the entry of name
RECURSIVE ScanPositions(_, _, _, _, _)
ScanPositions(insts, j, nargs, name, acc) ==
    IF j = 0 \/ Cardinality(acc) = nargs THEN acc
    ELSE IF ~IsBCValue(insts[j]) THEN acc
    ELSE IF insts[j].stackn < 1
    THEN ScanPositions(insts, j - 1, nargs, name, acc)
    ELSE IF ~checkargs_fn(name, insts[j]) THEN acc
    ELSE ScanPositions(insts, j - 1, nargs, name, acc \cup {j})

\* The positions a reduction at position i may remove: the opcode and the
\* arguments collected for it
Consumed(bblock, i) ==
    LET inst == bblock.insts[i]
    IN IF inst.name \in {"push1", "push4"} THEN {i}
       ELSE {i} \cup ScanPositions(bblock.insts, i - 1, nargs_fn(inst),
                                   inst.name, {})

\* The elements of insts at the positions not in gone, in their order
RECURSIVE Without(_, _, _)
Without(insts, gone, j) ==
    IF j > Len(insts) THEN <<>>
    ELSE (IF j \in gone THEN <<>> ELSE <<insts[j]>>)
         \o Without(insts, gone, j + 1)

\* new is old without the opcode at i and its arguments, with one run of
\* added nodes somewhere in it
RemovedExactly(old, new, i) ==
    LET rest == Without(old.insts, Consumed(old, i), 1)
        added == Len(new.insts) - Len(rest)
    IN /\ added >= 0
       /\ \E p \in 0..Len(rest) :
             /\ SubSeq(new.insts, 1, p) = SubSeq(rest, 1, p)
             /\ SubSeq(new.insts, p + added + 1, Len(new.insts))
                  = SubSeq(rest, p + 1, Len(rest))

\* A block with a node that does not occupy a stack slot between an opcode
\* the reducer fires on and one of the arguments collected for it
SkippedNode(bblock) ==
    /\ Reducible(bblock) # {}
    /\ LET i == Min(Reducible(bblock))
       IN \E j \in 1..(i - 1) :
             /\ IsBCValue(bblock.insts[j])
             /\ bblock.insts[j].stackn < 1
             /\ \E a \in Consumed(bblock, i) : a < j

\* C13: when a reduction fires in a block, the elements removed from the
\* block are exactly the arguments the backward scan collected and the
\* opcode: every node the scan skipped, and every node it did not reach,
\* stays in the block in its order.
C13_ReductionRemovesArgsAndOpcode ==
    [][(pc = "reduce" /\ pc' # "error") =>
          \A k \in DOMAIN bblocks :
             Reducible(bblocks[k]) # {} =>
                RemovedExactly(bblocks[k], bblocks'[k],
                               Min(Reducible(bblocks[k])))]_vars

\* A reduction whose scan skipped a node is reachable
C13_SkippedNodeReached ==
    pc = "reduce" /\ \E k \in DOMAIN bblocks : SkippedNode(bblocks[k])

----------------------------------------------------------------------------
(* C14: what the foreach transform changes *)

\* The recognizer reaches the blocks from position i in its third loop and
\* they match the foreach pattern: nothing matches before, the four blocks
\* satisfy the preconditions and the conditions of the loop, the last block
\* of the window starts with a literal, the first ends with a Set and a
\* foreach_start4 of one variable list, the step block holds its two
\* instructions
ForeachMatchesAt(bbs, i) ==
    /\ ~\E j \in DOMAIN bbs : IfMatch(bbs, j)
    /\ ~\E j \in DOMAIN bbs : _is_catch_begin(bbs[j])
    /\ \A j \in 1..(i - 1) :
          /\ bbs[j + 1].insts # <<>>
          /\ ForeachReadsEnd(bbs, j) =>
                bbs[j + 3].insts # <<>> /\ ~ForeachMatch(bbs, j)
    /\ ForeachWindow(bbs, i)
    /\ ForeachMatch(bbs, i)
    /\ Len(bbs[i].insts) >= 2
    /\ bbs[i].insts[Len(bbs[i].insts) - 1].k = "BCSet"
    /\ Len(Last(bbs[i].insts).ops[1].data) = 1
    /\ Len(bbs[i + 1].insts) = 2
    /\ Len(bbs[i + 2].insts) > 1

\* new is old after the foreach transform of the four blocks from position
\* i and of nothing else
ForeachFrame(old, new, i) ==
    LET b0 == old[i]
        n == Len(b0.insts)
        node == Last(new[i].insts)
    IN /\ Len(new) = Len(old) - 2
       /\ \A k \in 1..(i - 1) : new[k] = old[k]
       /\ \A k \in (i + 4)..Len(old) : new[k - 2] = old[k]
       /\ new[i + 1] = BBlock(Tail(old[i + 3].insts), old[i + 3].loc)
       /\ new[i].loc = b0.loc
       /\ Len(new[i].insts) = n - 1
       /\ SubSeq(new[i].insts, 1, n - 2) = SubSeq(b0.insts, 1, n - 2)
       /\ node.k = "BCForeach"
       /\ node.value[1].insts = <<b0.insts[n - 1], b0.insts[n]>>
       /\ node.value[2] = old[i + 1]
       /\ node.value[3] = old[i + 2]
       /\ node.value[4] = old[i + 3].insts[1]

\* C14: when the foreach pattern matches on the four blocks from a position
\* i, the first or a later one, the recognizer changes only those four
\* blocks: the Set and the foreach_start4 leave b0, the Foreach node of
\* begin, b1, b2 and the leading literal is appended to b0, b1 and b2 leave
\* the list, the literal leaves b3, every other block stays as it is.
C14_ForeachChangesItsWindow ==
    [][(pc = "flow" /\ \E i \in DOMAIN bblocks :
                          ForeachMatchesAt(bblocks, i)) =>
          /\ pc' = "reduce"
          /\ \A i \in DOMAIN bblocks :
                ForeachMatchesAt(bblocks, i) =>
                    ForeachFrame(bblocks, bblocks', i)]_vars

\* The foreach pattern matches at the first position ...
C14_MatchAtFirst == pc = "flow" /\ ForeachMatchesAt(bblocks, 1)

\* ... and at a later one
C14_MatchLater ==
    pc = "flow" /\ \E i \in DOMAIN bblocks :
                      i > 1 /\ ForeachMatchesAt(bblocks, i)

----------------------------------------------------------------------------
(* C15: the arguments the backward scan collects *)

\* The raw opcodes of a block that have an entry with arguments in the
\* reduction table
TableOpcodes(bblock) ==
    {i \in DOMAIN bblock.insts :
        /\ IsInst(bblock.insts[i])
        /\ bblock.insts[i].name \in ReductionNames}

\* Where the scan for the opcode at i stops: the nearest position before i
\* holding something else than a Value, or a Value that occupies a stack
\* slot and fails the predicate of the entry; 0 when there is none
ScanStop(bblock, i) ==
    LET stops == {j \in 1..(i - 1) :
                     \/ ~IsBCValue(bblock.insts[j])
                     \/ /\ bblock.insts[j].stackn >= 1
                        /\ ~checkargs_fn(bblock.insts[i].name,
                                         bblock.insts[j])}
    IN IF stops = {} THEN 0 ELSE CHOOSE j \in stops : \A m \in stops : m <= j

\* The positions between the stop and the opcode whose node occupies a stack
\* slot
Candidates(bblock, i) ==
    {j \in (ScanStop(bblock, i) + 1)..(i - 1) : bblock.insts[j].stackn >= 1}

\* The n candidates nearest to the opcode
Nearest(cands, n) ==
    {j \in cands : Cardinality({m \in cands : m > j}) < n}

\* getargsfn gives, for the opcode at i, the nearest nargs candidates in
\* block order, and None when there are fewer
ScanCollects(bblock, i) ==
    LET inst == bblock.insts[i]
        n == nargs_fn(inst)
        cands == Candidates(bblock, i)
        r == getargsfn(inst, bblock, i)
    IN /\ r.none = (Cardinality(cands) < n)
       /\ ~r.none =>
             r.arglist = Without(bblock.insts,
                                 DOMAIN bblock.insts \ Nearest(cands, n), 1)

\* The opcodes of the block for which getargsfn gives None
Starved(bblock) ==
    {i \in TableOpcodes(bblock) :
        getargsfn(bblock.insts[i], bblock, i).none}

\* The opcode at i and everything before it are in new what they are in old
Untouched(old, new, i) ==
    /\ Len(new.insts) >= i
    /\ SubSeq(new.insts, 1, i) = SubSeq(old.insts, 1, i)

\* C15: the backward scan of an opcode collects only Value nodes that occupy
\* a stack slot, skips the ones that do not, and stops at the first element
\* that is no Value or fails the predicate of the entry; when that gives
\* fewer nodes than the opcode takes, the reducer does not fire on it: the
\* opcode stays raw and the nodes before it stay as they are.
C15_ScanAndNoPartialReduction ==
    [][(pc = "reduce") =>
          \A k \in DOMAIN bblocks :
             /\ \A i \in TableOpcodes(bblocks[k]) :
                   ScanCollects(bblocks[k], i)
             /\ pc' # "error" =>
                   \A i \in Starved(bblocks[k]) :
                      (\A f \in Reducible(bblocks[k]) : i < f) =>
                          Untouched(bblocks[k], bblocks'[k], i)]_vars

\* The reducer runs on a block in which an opcode has some of its arguments
\* but not all, and on one in which the scan skips a node
C15_Witness ==
    /\ pc = "reduce"
    /\ \E k \in DOMAIN bblocks : \E i \in Starved(bblocks[k]) :
          /\ Candidates(bblocks[k], i) # {}
          /\ \E j \in (ScanStop(bblocks[k], i) + 1)..(i - 1) :
                bblocks[k].insts[j].stackn < 1

----------------------------------------------------------------------------
(* C16: what the coalescer changes *)

\* The targets of the Jump nodes and of the raw jump instructions that are
\* elements of a block of the list
TopTargets(bbs) ==
    UNION {{bbs[k].insts[j].targetloc[1] :
              j \in {j \in DOMAIN bbs[k].insts :
                        LET x == bbs[k].insts[j]
                        IN /\ IsBCJump(x) \/ IsInst(x)
                           /\ x.targetloc # <<>>}} :
           k \in DOMAIN bbs}

\* new is old without the empty block at position i, to which nothing jumps
DeletesEmpty(old, new, i) ==
    /\ old[i].insts = <<>>
    /\ old[i].loc \notin TopTargets(old)
    /\ new = SubSeq(old, 1, i - 1) \o SubSeq(old, i + 1, Len(old))

\* new is old with the blocks at i and i + 1 merged: the first does not end
\* with a Jump node or a raw jump, nothing jumps to the second, which does
\* not start a catch or end one
MergesPair(old, new, i) ==
    LET b1 == old[i]
        b2 == old[i + 1]
    IN /\ (b1.insts # <<>> =>
              /\ ~IsBCJump(Last(b1.insts))
              /\ ~(IsInst(Last(b1.insts))
                   /\ Last(b1.insts).targetloc # <<>>))
       /\ b2.loc \notin TopTargets(old)
       /\ (b2.insts # <<>> =>
              ~(IsInst(b2.insts[1])
                /\ b2.insts[1].name \in {"beginCatch4", "endCatch"}))
       /\ new = SubSeq(old, 1, i - 1)
                \o <<[loc |-> b1.loc, insts |-> b1.insts \o b2.insts]>>
                \o SubSeq(old, i + 2, Len(old))

\* C16: a call of the coalescer that changes the list either deletes one
\* empty block whose loc is the target of no top-level Jump node or raw
\* jump instruction, or merges two adjacent blocks b1 and b2 (b1 without a
\* Jump or a raw jump at its end, b2 not a jump target and not starting with
\* beginCatch4 or endCatch) into a block at b1.loc holding the elements of
\* b1 followed by those of b2; the other blocks stay as they are.
C16_CoalescerChanges ==
    [][(pc = "join" /\ pc' = "reduce") =>
          \/ \E i \in DOMAIN bblocks : DeletesEmpty(bblocks, bblocks', i)
          \/ \E i \in 1..(Len(bblocks) - 1) :
                MergesPair(bblocks, bblocks', i)]_vars

\* The coalescer changes a list that holds an empty block it must keep,
\* because a jump goes to it
C16_Witness ==
    /\ pc = "join"
    /\ JoinEmpty(bblocks) \cup JoinPair(bblocks) # {}
    /\ \E i \in DOMAIN bblocks :
          bblocks[i].insts = <<>> /\ bblocks[i].loc \in TopTargets(bblocks)

----------------------------------------------------------------------------
(* C17: when the literal formatter brace-quotes *)

\* The nesting level after the braces of s, from level; -1 as soon as a
\* closing brace has no opening brace before it
RECURSIVE BraceLevel(_, _)
BraceLevel(s, level) ==
    IF level < 0 \/ s = <<>> THEN level
    ELSE BraceLevel(Tail(s), IF Head(s) = "{" THEN level + 1
                             ELSE IF Head(s) = "}" THEN level - 1
                             ELSE level)

\* Every opening brace of s has a closing brace after it and no closing
\* brace comes before its opening brace
Balanced(s) == BraceLevel(s, 0) = 0

\* text is s between braces
BraceQuoted(text, s) == text = <<"{">> \o s \o <<"}">>

\* text is a double-quoted word
DoubleQuoted(text) ==
    Len(text) >= 2 /\ text[1] = DQ /\ text[Len(text)] = DQ

\* C17: BCLiteral.fmt brace-quotes a string only when its braces are
\* balanced and it holds no form feed, carriage return or vertical tab; a
\* string that holds a metacharacter and whose braces are not balanced is
\* rendered as a double-quoted word.
C17_BraceQuotedOnlyIfBalanced ==
    pc = "formatted" =>
        LET s == bc.literals[1]
        IN /\ BraceQuoted(out, s) =>
                /\ Balanced(s)
                /\ \A i \in DOMAIN s : s[i] \notin {FF, CR, VT}
           /\ ((\E i \in DOMAIN s : s[i] \in MetaChars) /\ ~Balanced(s)) =>
                DoubleQuoted(out)

----------------------------------------------------------------------------
(* C18: the branches of the If nodes *)

\* The branch ends with the empty literal or with a ProcCall that occupies
\* its stack slot
RenderableBranch(bblock) ==
    /\ bblock.insts # <<>>
    /\ LET inst == Last(bblock.insts)
       IN \/ IsBCLiteral(inst) /\ inst.lit = <<>>
          \/ IsBCProcCall(inst) /\ inst.stackn = 1

\* The If nodes that are elements of a block of the list
TopIfs(bbs) ==
    UNION {{bbs[k].insts[j] :
              j \in {j \in DOMAIN bbs[k].insts : bbs[k].insts[j].k = "BCIf"}} :
           k \in DOMAIN bbs}

\* C18: every If node the recognizer builds can be rendered by BCIf.fmt:
\* neither of its branches is empty once its jump is removed, and each ends
\* with the literal "" or with a ProcCall whose stack_n is 1.
C18_IfBranchesRenderable ==
    \A node \in TopIfs(bblocks) :
        RenderableBranch(node.value[1]) /\ RenderableBranch(node.value[2])

\* The recognizer has built an If node
C18_IfBuilt == TopIfs(bblocks) # {}

----------------------------------------------------------------------------
(* C19: decompile_steps against decompile *)

\* The lines of every block of a step, joined as BBlock.fmt and
\* _bblocks_fmt join them
StepText(step) ==
    Flatten([j \in DOMAIN step |-> StrJoin(<<LF>>, step[j]) \o <<LF>>])

\* C19: on every input on which decompile returns, decompile_steps returns
\* too, and the lines of its last step, joined, are the text decompile
\* returned.
C19_StepsAgreeWithDecompile ==
    /\ pc # "steps_error"
    /\ pc = "stepped" => StepText(Last(steps)) = out

\* decompile_steps returned on a program with several snapshots
C19_Stepped == pc = "stepped" /\ Len(steps) > 3

\* decompile returned on an input in which the pre-pass deleted a push
C19_HackedAndReturned ==
    /\ pc \in {"returned", "stepped", "steps_error"}
    /\ \E n \in DOMAIN yielded : \E j \in DOMAIN yielded[n].changes :
          \E m \in DOMAIN yielded[n].changes[j] :
             yielded[n].changes[j][m].lto = NoneC

----------------------------------------------------------------------------
(* C20: the jumps keep going to blocks of the list *)

\* The target of every top-level Jump node and raw jump instruction of the
\* list is the loc of one of its blocks
TargetsAreBlocks(bbs) ==
    \A t \in TopTargets(bbs) : \E k \in DOMAIN bbs : bbs[k].loc = t

\* C20: when every jump target is the loc of a block in the partition, then
\* after any sequence of steps of the reducer, the coalescer and the
\* recognizer the target of every top-level Jump node and raw jump
\* instruction is still the loc of a block of the list.
C20_TargetsStayBlocks ==
    (yielded # <<>> /\ TargetsAreBlocks(yielded[1].bblocks)) =>
        TargetsAreBlocks(bblocks)

\* The loop has changed, by each of its three passes, a list that still
\* holds a jump
C20_Witness ==
    /\ pc \in {"reduce", "join", "flow"}
    /\ yielded # <<>> /\ TargetsAreBlocks(yielded[1].bblocks)
    /\ TopTargets(bblocks) # {}
    /\ Len(bblocks) < Len(yielded[1].bblocks)
    /\ \E k \in DOMAIN bblocks : \E j \in DOMAIN bblocks[k].insts :
          bblocks[k].insts[j].k \in {"BCIf", "BCCatch", "BCForeach"}

====
